---- MODULE Spec2Model ----
(***************************************************************************)
(* Model of the arXiv paper downloader: the retry loops, the sequential    *)
(* download pipeline (ArxivDownloader) and the semaphore-bounded pipeline  *)
(* (AsyncArxivDownloader), the file cache (CacheManager), the two Atom     *)
(* feed parsers and the cached search (ArxivDownloader.search_papers).     *)
(*                                                                         *)
(* Strings are sequences of one-character strings, so that sanitising a    *)
(* title and deriving a file name are computed as the code computes them.  *)
(***************************************************************************)
EXTENDS Integers, Sequences, FiniteSets, TLC

\* ------------------------------------------------------------------------
\* Bounds of the model
\* ------------------------------------------------------------------------
MaxCalls == 2
MaxRetriesBound == 3
MaxConcurrentBound == 2

\* ------------------------------------------------------------------------
\* Program constants (src/config.py)
\* ------------------------------------------------------------------------
MAX_FILENAME_LENGTH == 100
MAX_RETRIES == 3
RETRY_DELAY_BASE == 2
MAX_CONCURRENT_DOWNLOADS == 5

\* Config.INVALID_CHARS_PATTERN  [<>:"/\\|?*]
INVALID_CHARS == {"<", ">", ":", "\"", "/", "\\", "|", "?", "*"}

\* the characters matched by \s in Config.WHITESPACE_PATTERN and by str.strip()
WHITESPACE == {" ", "\t", "\n", "\r"}

\* ------------------------------------------------------------------------
\* utils.sanitize_filename
\* ------------------------------------------------------------------------
RemoveInvalidChars(s) == SelectSeq(s, LAMBDA c : c \notin INVALID_CHARS)

RECURSIVE LStrip(_)
LStrip(s) ==
    IF s = <<>> THEN <<>>
    ELSE IF Head(s) \in WHITESPACE THEN LStrip(Tail(s)) ELSE s

RECURSIVE RStrip(_)
RStrip(s) ==
    IF s = <<>> THEN <<>>
    ELSE IF s[Len(s)] \in WHITESPACE THEN RStrip(SubSeq(s, 1, Len(s) - 1)) ELSE s

Strip(s) == RStrip(LStrip(s))

\* re.sub(r'\s+', ' ', title): every maximal run of whitespace becomes one space
RECURSIVE CollapseWhitespace(_)
CollapseWhitespace(s) ==
    IF s = <<>> THEN <<>>
    ELSE IF Head(s) \in WHITESPACE
         THEN <<" ">> \o CollapseWhitespace(LStrip(Tail(s)))
         ELSE <<Head(s)>> \o CollapseWhitespace(Tail(s))

Truncate(s, max_length) ==
    IF Len(s) > max_length THEN RStrip(SubSeq(s, 1, max_length)) ELSE s

UNTITLED == <<"u", "n", "t", "i", "t", "l", "e", "d">>

sanitize_filename(title) ==
    LET t == Truncate(Strip(CollapseWhitespace(RemoveInvalidChars(title))),
                      MAX_FILENAME_LENGTH)
    IN  IF t = <<>> THEN UNTITLED ELSE t

\* ------------------------------------------------------------------------
\* utils.generate_unique_filename over a directory given as a set of names
\* ------------------------------------------------------------------------
PDF_EXT == <<".", "p", "d", "f">>

DIGITS == <<"0", "1", "2", "3", "4", "5", "6", "7", "8", "9">>

\* str(counter)
RECURSIVE IntToStr(_)
IntToStr(k) ==
    IF k < 10 THEN <<DIGITS[k + 1]>>
    ELSE IntToStr(k \div 10) \o <<DIGITS[(k % 10) + 1]>>

\* index of the last "." of a name, 0 when it has none
LastDot(s) ==
    LET dots == {i \in 1..Len(s) : s[i] = "."}
    IN  IF dots = {} THEN 0 ELSE CHOOSE i \in dots : \A j \in dots : j <= i

\* f"{name}_{suffix}.{ext}" after filename.rsplit('.', 1), or
\* f"{filename}_{suffix}" when the name has no extension
WithSuffix(filename, suffix) ==
    LET d == LastDot(filename)
    IN  IF d = 0 THEN filename \o <<"_">> \o suffix
        ELSE SubSeq(filename, 1, d - 1) \o <<"_">> \o suffix
             \o SubSeq(filename, d, Len(filename))

\* the while-True loop of the numeric suffix
RECURSIVE NumericCandidate(_, _, _)
NumericCandidate(dir, filename, counter) ==
    IF WithSuffix(filename, IntToStr(counter)) \notin dir
    THEN WithSuffix(filename, IntToStr(counter))
    ELSE NumericCandidate(dir, filename, counter + 1)

\* the name as given, whether or not it is taken
first_candidate_only(dir, filename, paper_id) == filename

generate_unique_filename(dir, filename, paper_id) ==
    IF filename \notin dir THEN filename
    ELSE IF paper_id # <<>> /\ WithSuffix(filename, paper_id) \notin dir
         THEN WithSuffix(filename, paper_id)
         ELSE NumericCandidate(dir, filename, 1)

\* ------------------------------------------------------------------------
\* Inputs of the model
\* ------------------------------------------------------------------------
\* Paper records (models.Paper): only id and title decide a file name.
\* P1 and P2 have different titles with the same sanitised name.
P1 == [id |-> <<"x">>, title |-> <<"a">>]
P2 == [id |-> <<"y">>, title |-> <<"a", ":">>]
P3 == [id |-> <<"z">>, title |-> <<" ", "b", " ", " ", "c">>]
PaperSet == {P1, P2, P3}

\* number of chunks of a PDF body (response.iter_content)
BodyChunks == 2

\* files that may be in the download directory before the program starts
PreFiles == { <<"a">> \o PDF_EXT, <<"a", "_", "x">> \o PDF_EXT }

\* the same for the directory of the asynchronous downloader
AsyncPreFiles == { <<"x", "_", "a">> \o PDF_EXT, <<"z", "_", "b", " ", "c">> \o PDF_EXT }

PreFile == [owner |-> "pre", chunks |-> BodyChunks]

\* behaviour of each paper's pdf_url: "up" always answers 200, "down" fails
\* every request, "flaky" may do either on each request
Endpoint(paper) ==
    IF paper = P2 THEN "down" ELSE IF paper = P3 THEN "up" ELSE "flaky"

\* the lists download_papers is called with
BatchInputs == { <<>>, <<P3>>, <<P1, P2, P3>> }

\* requests.RequestException raised by requests.get / raise_for_status
FailureKinds == {"timeout", "connection", "http_status"}

RECURSIVE Pow(_, _)
Pow(b, e) == IF e = 0 THEN 1 ELSE b * Pow(b, e - 1)

\* ------------------------------------------------------------------------
\* State
\* ------------------------------------------------------------------------
VARIABLES
    disk,     \* download directory: file name -> [owner, chunks]
    stats,    \* ArxivDownloader.stats (models.DownloadStats)
    dl,       \* the download_pdf call in progress
    calls,    \* finished download_pdf calls, oldest first
    batch,    \* the last download_papers call
    rt,       \* the retry loop in progress
    amain,    \* position of download_papers_async
    apapers,  \* the list download_papers_async was called with
    amax,     \* AsyncArxivDownloader.max_concurrent
    sem,      \* value of the asyncio.Semaphore of the running batch
    task,     \* per submitted paper: position and result of its task
    astats,   \* AsyncArxivDownloader.stats
    aresult,  \* the dictionary download_papers_async returned
    store,    \* cache directory: <<namespace, file name>> -> file content
    now,      \* datetime.now(), in hours since the program started
    cres,     \* the last cache operation and what it returned
    pres,     \* the last call of a response parser: body and result
    sr,       \* the search_papers call in progress or just finished
    hist,     \* the successful searches: arguments, papers, time
    qb,       \* the last call of a date-clause builder: range and clause
    eapi,     \* the EnhancedArxivAPI.search_papers call in progress or finished
    plugins,  \* PluginManager.plugins: the registered plugins and their state
    hook      \* the last call of a plugin hook and what it returned

syncVars == <<stats, dl, calls, batch>>
asyncVars == <<amain, apapers, amax, sem, task, astats, aresult>>
cacheVars == <<store, now, cres>>
searchVars == <<sr, hist>>
apiVars == <<qb, eapi, plugins, hook>>
extVars == <<cacheVars, pres, searchVars, apiVars>>
vars == <<disk, stats, dl, calls, batch, rt, amain, apapers, amax, sem, task,
          astats, aresult, extVars>>

exists(path) == path \in DOMAIN disk

NewStats == [total_papers |-> 0, successful_downloads |-> 0,
             failed_downloads |-> 0, skipped_downloads |-> 0,
             total_size |-> 0]

\* DownloadStats.add_success / add_failure / add_skip
add_success(st, size) ==
    [st EXCEPT !.successful_downloads = @ + 1, !.total_size = @ + size]

add_failure(st) == [st EXCEPT !.failed_downloads = @ + 1]

add_skip(st) == [st EXCEPT !.skipped_downloads = @ + 1]

IdleRetry == [pc |-> "idle", loop |-> "none", max_retries |-> 0, base |-> 0,
              attempt |-> 0, requests |-> 0, sleeps |-> <<>>, outs |-> <<>>,
              mode |-> "flaky", paper |-> P1]

IdleDl == [pc |-> "idle", paper |-> P1, filepath |-> <<>>]

NoBatch == [status |-> "none", papers |-> <<>>]

NoResult == [successful |-> 0, failed |-> 0, skipped |-> 0]

\* ------------------------------------------------------------------------
\* The cache directory (src/cache.py)
\* ------------------------------------------------------------------------
\* self.paper_cache_dir = cache_dir / 'papers', self.search_cache_dir =
\* cache_dir / 'searches': the two directories __init__ creates
Namespaces == {"papers", "searches"}

\* keys the cache is called with: a new-style arXiv id, a legacy id
\* (archive/number) and a query hash
ModernId == <<"2", "3", ".", "1">>
LegacyId == <<"h", "e", "p", "/", "9">>
QueryHash == <<"a", "f">>

CacheKeys(ns) == IF ns = "papers" THEN {ModernId, LegacyId} ELSE {QueryHash}

JSON_EXT == <<".", "j", "s", "o", "n">>

\* ------------------------------------------------------------------------
\* The arguments of search_papers and their cache key
\* ------------------------------------------------------------------------
QUERY == <<"q">>
PIPE_QUERY == <<"q", "|", "N", "o", "n", "e">>
DATE == <<"2", "0", "2", "4", "-", "0", "1", "-", "0", "1">>
SLASH_DATE == <<"2", "0", "2", "3", "/", "0", "1", "/", "0", "1">>
WORD_DATE == <<"i", "n", "v", "a", "l", "i", "d">>
NEWLINE_DATE == DATE \o <<"\n">>

SearchArgs ==
    [query : {QUERY}, date_from : {[kind |-> "None"]}, date_to : {[kind |-> "None"]},
     max_results : {0, 1, 2}]
    \cup [query : {PIPE_QUERY}, date_from : {[kind |-> "None"]},
          date_to : {[kind |-> "None"]}, max_results : {1}]
    \cup [query : {QUERY},
          date_from : {[kind |-> "value", value |-> d] :
                          d \in {DATE, SLASH_DATE, NEWLINE_DATE}},
          date_to : {[kind |-> "None"]}, max_results : {1}]
    \cup [query : {QUERY}, date_from : {[kind |-> "None"]},
          date_to : {[kind |-> "value", value |-> d] : d \in {DATE, WORD_DATE}},
          max_results : {1}]

\* re.match(r'^\d{4}-\d{2}-\d{2}$', date_str) without the `$` subtlety
MatchesDate(s) ==
    /\ Len(s) = 10
    /\ \A i \in {1, 2, 3, 4, 6, 7, 9, 10} : \E k \in DOMAIN DIGITS : s[i] = DIGITS[k]
    /\ s[5] = "-"
    /\ s[8] = "-"

\* utils.is_valid_date_format: `$` matches at the end of the string and
\* also before a newline that ends the string
is_valid_date_format(s) ==
    /\ s # <<>>
    /\ \/ MatchesDate(s)
       \/ Len(s) = 11 /\ s[11] = "\n" /\ MatchesDate(SubSeq(s, 1, 10))

\* the three checks at the head of search_papers
PassesValidation(a) ==
    /\ ~(a.date_from.kind = "value" /\ a.date_from.value # <<>>
            /\ ~is_valid_date_format(a.date_from.value))
    /\ ~(a.date_to.kind = "value" /\ a.date_to.value # <<>>
            /\ ~is_valid_date_format(a.date_to.value))
    /\ ~(a.max_results <= 0)

\* str(x) of an Optional[str] inside an f-string
StrOpt(v) == IF v.kind = "None" THEN <<"N", "o", "n", "e">> ELSE v.value

\* query_str = f"{query}|{date_from}|{date_to}|{max_results}"
QueryStringNoMax(a) ==
    a.query \o <<"|">> \o StrOpt(a.date_from) \o <<"|">> \o StrOpt(a.date_to)
QueryString(a) ==
    a.query \o <<"|">> \o StrOpt(a.date_from) \o <<"|">> \o StrOpt(a.date_to)
        \o <<"|">> \o IntToStr(a.max_results)

\* hashlib.md5(...).hexdigest(): a digest without collisions on the strings
\* the model hashes
HashInputs == {QueryString(a) : a \in {b \in SearchArgs : PassesValidation(b)}}

Md5Table ==
    CHOOSE f \in [HashInputs -> 1..Cardinality(HashInputs)] :
        \A x \in HashInputs : \A y \in HashInputs : x # y => f[x] # f[y]

Md5Hex(str) == <<"m">> \o IntToStr(Md5Table[str])

generate_query_hash(a) == Md5Hex(QueryString(a))

SearchKeys == {generate_query_hash(a) : a \in {b \in SearchArgs : PassesValidation(b)}}

\* cache_file = self.paper_cache_dir / f"{paper_id}.json": the path below the
\* namespace directory, split at "/"
RECURSIVE PathParts(_)
PathParts(s) ==
    LET seps == {i \in 1..Len(s) : s[i] = "/"}
    IN  IF seps = {} THEN <<s>>
        ELSE LET i == CHOOSE k \in seps : \A j \in seps : k <= j
             IN  <<SubSeq(s, 1, i - 1)>> \o PathParts(SubSeq(s, i + 1, Len(s)))

CacheFile(ns, key) == <<ns>> \o PathParts(key \o JSON_EXT)

\* the paths directly inside a namespace directory: what open(..., 'w') can
\* create and what glob('*.json') lists
DirectFiles ==
    {f \in UNION {{CacheFile(ns, key) : key \in CacheKeys(ns)} : ns \in Namespaces} :
        Len(f) = 2}

CacheFiles == DirectFiles \cup {CacheFile("searches", key) : key \in SearchKeys}

NoFile == [kind |-> "nofile"]

EmptyStore == [f \in CacheFiles |-> NoFile]

\* return values and exceptions of a call
NoneValue == [kind |-> "None"]
Value(v) == [kind |-> "value", value |-> v]
Raised(exc) == [kind |-> "raise", exc |-> exc]

\* a string that is neither None nor empty
Truthy(v) == v.kind = "value" /\ v.value # <<>>

NoParse == [parser |-> "none", body |-> [wf |-> FALSE, entries |-> <<>>],
            result |-> NoneValue]

NoArgs == [query |-> <<>>, date_from |-> NoneValue, date_to |-> NoneValue,
           max_results |-> 0]

IdleSearch == [pc |-> "idle", n |-> 0, args |-> NoArgs, result |-> NoneValue,
               requests |-> 0, sleeps |-> 0, lookups |-> 0, at |-> 0,
               params |-> NoneValue]

NoCacheOp == [op |-> "none", ns |-> "papers", key |-> <<>>, at |-> 0,
              arg |-> [kind |-> "None"], result |-> [kind |-> "None"],
              logged |-> [papers |-> 0, searches |-> 0]]

NoClause == [builder |-> "none",
             range |-> [start_date |-> NoneValue, end_date |-> NoneValue,
                        field |-> "SUBMITTED_DATE"],
             clause |-> <<>>]

\* the defaults of EnhancedArxivAPI.search_papers, without a query
NoRequest == [query |-> NoneValue, id_list |-> NoneValue, date_range |-> NoneValue,
              categories |-> NoneValue, max_results |-> 10, start |-> 0,
              sort_by |-> "relevance", sort_order |-> "descending"]

IdleEnhanced == [pc |-> "idle", request |-> NoRequest, params |-> NoneValue,
                 result |-> NoneValue, requests |-> 0]

NoHook == [op |-> "none", n |-> 0, paper |-> <<>>, success |-> FALSE,
           result |-> NoneValue, trace |-> <<>>]

InitDisks(pre) == {[f \in S |-> PreFile] : S \in SUBSET pre}

InitCommon ==
    /\ stats = NewStats
    /\ dl = IdleDl
    /\ calls = <<>>
    /\ batch = NoBatch
    /\ rt = IdleRetry
    /\ amain = "idle"
    /\ apapers = <<>>
    /\ amax = MAX_CONCURRENT_DOWNLOADS
    /\ sem = 0
    /\ task = <<>>
    /\ astats = NewStats
    /\ aresult = NoResult
    /\ store = EmptyStore
    /\ now = 0
    /\ cres = NoCacheOp
    /\ pres = NoParse
    /\ sr = IdleSearch
    /\ hist = {}
    /\ qb = NoClause
    /\ eapi = IdleEnhanced
    /\ plugins = <<>>
    /\ hook = NoHook

InitSync == disk \in InitDisks(PreFiles) /\ InitCommon

InitAsync == disk \in InitDisks(AsyncPreFiles) /\ InitCommon

InitRetry == disk \in InitDisks(AsyncPreFiles) /\ InitCommon

\* ------------------------------------------------------------------------
\* The retry loops: ArxivDownloader._make_request_with_retry ("search"),
\* ArxivDownloader._download_with_retry ("pdf"),
\* EnhancedArxivAPI._make_request ("enhanced") and
\* AsyncArxivDownloader.download_with_retry_async ("async")
\* ------------------------------------------------------------------------
SyncLoops == {"search", "pdf", "enhanced"}

\* for attempt in range(max_retries): ... ; an empty range falls through to
\* the statement after the loop: raise NetworkError (return False in "async")
BeginRetry(loop, n, base, mode, paper) ==
    [pc |-> IF n > 0 THEN "try" ELSE IF loop = "async" THEN "false" ELSE "raised",
     loop |-> loop, max_retries |-> n, base |-> base, attempt |-> 0,
     requests |-> 0, sleeps |-> <<>>, outs |-> <<>>, mode |-> mode,
     paper |-> paper]

\* wait_time = Config.RETRY_DELAY_BASE ** attempt   (self.retry_delay ** attempt)
Backoff(r) == Pow(r.base, r.attempt)

\* wait_time = (2 ** attempt) * Config.RETRY_DELAY_BASE
AsyncBackoff(r) == Pow(2, r.attempt) * r.base

\* if attempt == max_retries - 1
LastAttemptLate(r) == r.attempt = r.max_retries
LastAttempt(r) == r.attempt = r.max_retries - 1

\* what ends an attempt in `except requests.RequestException`: requests.get
\* raises for a timeout or a connection error, response.raise_for_status()
\* for an error status
RaisesUnchecked(kind) == kind \in {"timeout", "connection"}
Raises(kind) == kind \in {"timeout", "connection", "http_status"}

\* response = requests.get(...); response.raise_for_status(); return response
RetryRequestOk ==
    /\ rt.pc = "try"
    /\ rt.loop \in SyncLoops
    /\ rt.mode # "down"
    /\ rt' = [rt EXCEPT !.pc = "returned", !.requests = @ + 1,
                        !.outs = Append(@, "ok")]
    /\ UNCHANGED <<disk, syncVars, asyncVars, extVars>>

\* the attempt ends in an error: NetworkError on the last attempt, else
\* time.sleep(wait_time) and the next attempt
RetryRequestFail(kind) ==
    /\ rt.pc = "try"
    /\ rt.loop \in SyncLoops
    /\ rt.mode # "up"
    /\ IF ~Raises(kind)
       THEN rt' = [rt EXCEPT !.pc = "returned", !.requests = @ + 1,
                             !.outs = Append(@, kind)]
       ELSE IF LastAttempt(rt)
       THEN rt' = [rt EXCEPT !.pc = "raised", !.requests = @ + 1,
                             !.outs = Append(@, kind)]
       ELSE rt' = [rt EXCEPT !.requests = @ + 1, !.outs = Append(@, kind),
                             !.sleeps = Append(@, Backoff(rt)),
                             !.attempt = @ + 1]
    /\ UNCHANGED <<disk, syncVars, asyncVars, extVars>>

\* a direct call of one of the loops; EnhancedArxivAPI takes max_retries and
\* retry_delay from its constructor, the other two take Config.RETRY_DELAY_BASE
CallRetry(loop, n, base) ==
    /\ rt.pc = "idle"
    /\ dl.pc = "idle"
    /\ loop \in SyncLoops
    /\ loop = "enhanced" \/ base = RETRY_DELAY_BASE
    /\ rt' = BeginRetry(loop, n, base, "flaky", P1)
    /\ UNCHANGED <<disk, syncVars, asyncVars, extVars>>

\* the caller takes the response, the NetworkError or the boolean
RetryDone ==
    /\ rt.pc \in {"returned", "raised", "true", "false"}
    /\ rt.loop \in {"search", "enhanced", "pdf", "async"}
    /\ dl.pc = "idle"
    /\ rt' = IdleRetry
    /\ UNCHANGED <<disk, syncVars, asyncVars, extVars>>

\* ------------------------------------------------------------------------
\* AsyncArxivDownloader._download_single_async, the part inside
\* `async with semaphore`
\* ------------------------------------------------------------------------
\* filename = f"{paper.id}_{clean_title}.pdf"
AsyncTarget(paper) ==
    paper.id \o <<"_">> \o sanitize_filename(paper.title) \o PDF_EXT

\* An existing target returns True.  Otherwise the next statement,
\* generate_unique_filename(filepath), raises TypeError: the function takes
\* (base_path, filename, paper_id=None) and is given one argument.  The
\* handler finds no file to delete and re-raises.
SingleOutcome(dir, paper) ==
    IF AsyncTarget(paper) \in dir THEN "True" ELSE "TypeError"

\* ------------------------------------------------------------------------
\* AsyncArxivDownloader.download_with_retry_async
\* ------------------------------------------------------------------------
CallRetryAsync(paper, n) ==
    /\ rt.pc = "idle"
    /\ dl.pc = "idle"
    /\ rt' = BeginRetry("async", n, RETRY_DELAY_BASE, "flaky", paper)
    /\ UNCHANGED <<disk, syncVars, asyncVars, extVars>>

\* a loop that sleeps before it tests for the last attempt
AsyncRetrySleepsLast ==
    /\ rt.pc = "try"
    /\ rt.loop = "async"
    /\ LET out == SingleOutcome(DOMAIN disk, rt.paper)
       IN  IF out = "True"
           THEN rt' = [rt EXCEPT !.pc = "true", !.requests = @ + 1,
                                 !.outs = Append(@, out)]
           ELSE rt' = [rt EXCEPT !.pc = IF LastAttempt(rt) THEN "false" ELSE "try",
                                 !.requests = @ + 1, !.outs = Append(@, out),
                                 !.sleeps = Append(@, AsyncBackoff(rt)),
                                 !.attempt = @ + 1]
    /\ UNCHANGED <<disk, syncVars, asyncVars, extVars>>

\* one pass of the loop: return await self._download_single_async(...), or
\* the except branch: return False on the last attempt, else asyncio.sleep
AsyncRetryAttempt ==
    /\ rt.pc = "try"
    /\ rt.loop = "async"
    /\ LET out == SingleOutcome(DOMAIN disk, rt.paper)
       IN  IF out = "True"
           THEN rt' = [rt EXCEPT !.pc = "true", !.requests = @ + 1,
                                 !.outs = Append(@, out)]
           ELSE IF LastAttempt(rt)
           THEN rt' = [rt EXCEPT !.pc = "false", !.requests = @ + 1,
                                 !.outs = Append(@, out)]
           ELSE rt' = [rt EXCEPT !.requests = @ + 1, !.outs = Append(@, out),
                                 !.sleeps = Append(@, AsyncBackoff(rt)),
                                 !.attempt = @ + 1]
    /\ UNCHANGED <<disk, syncVars, asyncVars, extVars>>

\* ------------------------------------------------------------------------
\* ArxivDownloader.download_pdf
\* ------------------------------------------------------------------------
CallRecord(paper, result, requests, path) ==
    [paper |-> paper, result |-> result, requests |-> requests, path |-> path]

\* filename = f"{clean_title}.pdf"
TitleFile(paper) == sanitize_filename(paper.title) \o PDF_EXT

\* filepath = generate_unique_filename(self.download_dir, filename, paper.id)
TargetPath(paper) == generate_unique_filename(DOMAIN disk, TitleFile(paper), paper.id)

\* lines 273-288: derive the path, skip when it exists, else start fetching
DownloadPdfBegin(paper) ==
    /\ dl.pc = "idle"
    /\ rt.pc = "idle"
    /\ Len(calls) < MaxCalls
    /\ LET filepath == TargetPath(paper)
       IN  IF exists(filepath)
           THEN /\ stats' = add_skip(stats)
                /\ calls' = Append(calls, CallRecord(paper, "skipped", 0, filepath))
                /\ UNCHANGED <<dl, rt>>
           ELSE /\ dl' = [pc |-> "fetching", paper |-> paper, filepath |-> filepath]
                /\ rt' = BeginRetry("pdf", MAX_RETRIES, RETRY_DELAY_BASE,
                                    Endpoint(paper), paper)
                /\ UNCHANGED <<stats, calls>>
    /\ UNCHANGED <<disk, batch, asyncVars, extVars>>

\* lines 290-301: open(filepath, 'wb'), write every chunk, add_success
DownloadPdfSave ==
    /\ dl.pc = "fetching"
    /\ rt.pc = "returned"
    /\ disk' = [f \in DOMAIN disk \cup {dl.filepath} |->
                   IF f = dl.filepath
                   THEN [owner |-> dl.paper.id, chunks |-> BodyChunks]
                   ELSE disk[f]]
    /\ stats' = add_success(stats, BodyChunks)
    /\ calls' = Append(calls, CallRecord(dl.paper, "success", rt.requests, dl.filepath))
    /\ dl' = IdleDl
    /\ rt' = IdleRetry
    /\ UNCHANGED <<batch, asyncVars, extVars>>

\* the exceptions download_pdf handles: except (NetworkError, FileOperationError)
HandledExceptions == {"NetworkError", "FileOperationError"}

\* lines 303-314: delete the incomplete file, add_failure, return False;
\* any other exception leaves download_pdf with the file as it is
DownloadPdfExcept(exc, written) ==
    IF exc \in HandledExceptions
    THEN /\ disk' = [f \in DOMAIN written \ {dl.filepath} |-> written[f]]
         /\ stats' = add_failure(stats)
         /\ calls' = Append(calls, CallRecord(dl.paper, "failed", rt.requests, dl.filepath))
    ELSE /\ disk' = written
         /\ stats' = stats
         /\ calls' = Append(calls, CallRecord(dl.paper, "raised", rt.requests, dl.filepath))

\* _download_with_retry raised NetworkError after its last attempt
DownloadPdfNetworkError ==
    /\ dl.pc = "fetching"
    /\ rt.pc = "raised"
    /\ DownloadPdfExcept("NetworkError", disk)
    /\ dl' = IdleDl
    /\ rt' = IdleRetry
    /\ UNCHANGED <<batch, asyncVars, extVars>>

\* open() raises OSError (permission denied, missing directory): no file
DownloadPdfOpenError ==
    /\ dl.pc = "fetching"
    /\ rt.pc = "returned"
    /\ DownloadPdfExcept("OSError", disk)
    /\ dl' = IdleDl
    /\ rt' = IdleRetry
    /\ UNCHANGED <<batch, asyncVars, extVars>>

\* f.write raises OSError (disk full) or iter_content raises a
\* requests.RequestException after k chunks were written
DownloadPdfWriteError(exc, k) ==
    /\ dl.pc = "fetching"
    /\ rt.pc = "returned"
    /\ exc \in {"OSError", "RequestException"}
    /\ k \in 0..(BodyChunks - 1)
    /\ DownloadPdfExcept(exc,
           [f \in DOMAIN disk \cup {dl.filepath} |->
               IF f = dl.filepath
               THEN [owner |-> dl.paper.id, chunks |-> k]
               ELSE disk[f]])
    /\ dl' = IdleDl
    /\ rt' = IdleRetry
    /\ UNCHANGED <<batch, asyncVars, extVars>>

\* ------------------------------------------------------------------------
\* ArxivDownloader.download_papers
\* ------------------------------------------------------------------------
\* An empty list returns at once.  Otherwise the statistics are reset and the
\* loop's first statement, self.log_info(f"[{i}/{len(papers)}] ", end=""),
\* raises TypeError: LoggerMixin.log_info(self, message) takes no `end`.
DownloadPapers(papers) ==
    /\ dl.pc = "idle"
    /\ rt.pc = "idle"
    /\ IF papers = <<>>
       THEN /\ batch' = [status |-> "returned", papers |-> papers]
            /\ UNCHANGED stats
       ELSE /\ stats' = [NewStats EXCEPT !.total_papers = Len(papers)]
            /\ batch' = [status |-> "raised", papers |-> papers]
    /\ UNCHANGED <<disk, dl, calls, rt, asyncVars, extVars>>

NextSync ==
    \/ \E p \in PaperSet : DownloadPdfBegin(p)
    \/ RetryRequestOk
    \/ \E kind \in FailureKinds : RetryRequestFail(kind)
    \/ DownloadPdfSave
    \/ DownloadPdfNetworkError
    \/ DownloadPdfOpenError
    \/ \E exc \in {"OSError", "RequestException"}, k \in 0..(BodyChunks - 1) :
          DownloadPdfWriteError(exc, k)
    \/ \E ps \in BatchInputs : DownloadPapers(ps)

SpecSync == InitSync /\ [][NextSync]_vars

RetryDelays == 1..3

NextRetry ==
    \/ \E loop \in SyncLoops, n \in 0..MaxRetriesBound, base \in RetryDelays :
          CallRetry(loop, n, base)
    \/ \E p \in PaperSet, n \in 0..MaxRetriesBound : CallRetryAsync(p, n)
    \/ RetryRequestOk
    \/ \E kind \in FailureKinds : RetryRequestFail(kind)
    \/ AsyncRetryAttempt
    \/ RetryDone

SpecRetry == InitRetry /\ [][NextRetry]_vars

\* ------------------------------------------------------------------------
\* AsyncArxivDownloader.download_papers_async
\* ------------------------------------------------------------------------
\* the lists download_papers_async is called with; the same paper may be
\* listed twice
AsyncInputs == { <<>>, <<P1, P1>>, <<P1, P2, P3>>, <<P3, P1, P1>> }

NewTask == [pc |-> "pending", result |-> "none"]

\* lines 80-92: semaphore = asyncio.Semaphore(self.max_concurrent) and one
\* task per paper; called inside `async with`, so that self.session is set
AsyncStart(papers, max_concurrent) ==
    /\ amain = "idle"
    /\ amain' = "gathering"
    /\ apapers' = papers
    /\ amax' = max_concurrent
    /\ sem' = max_concurrent
    /\ task' = [i \in 1..Len(papers) |-> NewTask]
    /\ UNCHANGED <<extVars, disk, syncVars, rt, astats, aresult>>

\* Semaphore.acquire: a task enters only while the value is positive
CanAcquireAlways(value) == TRUE
CanAcquire(value) == value > 0

\* async with semaphore: take a slot or keep waiting
TaskAcquire(i) ==
    /\ amain = "gathering"
    /\ i \in DOMAIN task
    /\ task[i].pc = "pending"
    /\ CanAcquire(sem)
    /\ sem' = sem - 1
    /\ task' = [task EXCEPT ![i].pc = "holding"]
    /\ UNCHANGED <<extVars, disk, syncVars, rt, amain, apapers, amax, astats, aresult>>

\* Semaphore.release, run by `async with` however the block is left
keep_slot(value) == value
release(value) == value + 1

\* lines 132-177 and the release of the slot when the block is left
TaskBody(i) ==
    /\ amain = "gathering"
    /\ i \in DOMAIN task
    /\ task[i].pc = "holding"
    /\ task' = [task EXCEPT ![i] = [pc |-> "done",
                   result |-> SingleOutcome(DOMAIN disk, apapers[i])]]
    /\ sem' = release(sem)
    /\ UNCHANGED <<extVars, disk, syncVars, rt, amain, apapers, amax, astats, aresult>>

\* asyncio.gather(*tasks, return_exceptions=True)
ReturnExceptionsOff == FALSE
ReturnExceptions == TRUE

IsException(r) == r \notin {"True", "False", "none"}

\* lines 95-97
CountSuccessful(results) == Cardinality({i \in DOMAIN results : results[i] = "True"})

CountFailed(results) == Cardinality({i \in DOMAIN results : IsException(results[i])})

\* lines 92-119: gather every task, count, store into self.stats, return
AsyncGather ==
    /\ amain = "gathering"
    /\ \A i \in DOMAIN task : task[i].pc = "done"
    /\ LET results == [i \in DOMAIN task |-> task[i].result]
           successful == CountSuccessful(results)
           failed == CountFailed(results)
           skipped == Len(results) - successful - failed
       IN  IF ~ReturnExceptions /\ failed > 0
           THEN /\ amain' = "raised"
                /\ UNCHANGED <<astats, aresult>>
           ELSE /\ amain' = "returned"
                /\ astats' = [astats EXCEPT !.successful_downloads = successful,
                                            !.failed_downloads = failed,
                                            !.skipped_downloads = skipped,
                                            !.total_papers = Len(apapers)]
                /\ aresult' = [successful |-> successful, failed |-> failed,
                               skipped |-> skipped]
    /\ UNCHANGED <<extVars, disk, syncVars, rt, apapers, amax, sem, task>>

\* the caller has the result; the downloader can be given another batch
AsyncFinish ==
    /\ amain \in {"returned", "raised"}
    /\ amain' = "idle"
    /\ UNCHANGED <<extVars, disk, syncVars, rt, apapers, amax, sem, task, astats, aresult>>

NextAsync ==
    \/ \E ps \in AsyncInputs, mc \in 0..MaxConcurrentBound : AsyncStart(ps, mc)
    \/ \E i \in DOMAIN task : TaskAcquire(i)
    \/ \E i \in DOMAIN task : TaskBody(i)
    \/ AsyncGather
    \/ AsyncFinish

SpecAsync == InitAsync /\ [][NextAsync]_vars

\* The event loop runs every task that is ready: a task waiting for a free
\* slot gets it, a task holding a slot runs to its end (every fetch answers
\* or fails), and gather resumes once all tasks are done.
FairAsync ==
    /\ WF_vars(\E i \in DOMAIN task : TaskAcquire(i))
    /\ WF_vars(\E i \in DOMAIN task : TaskBody(i))
    /\ WF_vars(AsyncGather)

SpecAsyncLive == InitAsync /\ [][NextAsync]_vars /\ FairAsync

\* ------------------------------------------------------------------------
\* CacheManager (src/cache.py)
\* ------------------------------------------------------------------------
\* timedelta(hours=1) for search results, timedelta(days=7) for paper info
SEARCH_TTL_HOURS == 1
PAPER_TTL_DAYS == 7

Ttl(ns) == IF ns = "papers" THEN PAPER_TTL_DAYS * 24 ELSE SEARCH_TTL_HOURS

\* the clock is observed at the hours around the two expiry times
ClockSlack == 1

Instants ==
    (0..(Ttl("searches") + ClockSlack)) \cup (Ttl("papers")..(Ttl("papers") + ClockSlack))

\* a member of a JSON object: absent, a string (a well-formed ISO timestamp
\* of an hour, or any other text) or a number
Absent == [k |-> "absent", wf |-> FALSE, hour |-> 0]
BadText == [k |-> "str", wf |-> FALSE, hour |-> 0]
Number == [k |-> "num", wf |-> FALSE, hour |-> 0]

\* datetime.now().isoformat()
IsoFormat(t) == [k |-> "str", wf |-> TRUE, hour |-> t]

\* the default of data.get('cached_at', '1970-01-01'), in hours before the
\* program started
EPOCH_1970 == -490000

\* datetime.fromisoformat(x): TypeError unless x is a string, ValueError
\* unless the string is an ISO timestamp
FromIsoFormat(a) ==
    IF a.k # "str" THEN [exc |-> "TypeError", hour |-> 0]
    ELSE IF ~a.wf THEN [exc |-> "ValueError", hour |-> 0]
    ELSE [exc |-> "none", hour |-> a.hour]

\* json.dump({'results' | 'paper_info': payload, 'cached_at': ...}, f)
JsonDump(payload, t) ==
    [kind |-> "json",
     doc |-> [j |-> "object", at |-> IsoFormat(t),
              data |-> [k |-> "val", v |-> payload]]]

Garbage == [kind |-> "garbage", doc |-> [j |-> "none"]]
JsonArray == [kind |-> "json", doc |-> [j |-> "array"]]
JsonObject(at, data) ==
    [kind |-> "json", doc |-> [j |-> "object", at |-> at, data |-> data]]

\* data = json.load(f); cached_time = datetime.fromisoformat(
\*     data.get('cached_at', '1970-01-01'))
CachedTime(content) ==
    IF content.kind = "garbage" THEN [exc |-> "JSONDecodeError", hour |-> 0]
    ELSE IF content.doc.j # "object" THEN [exc |-> "AttributeError", hour |-> 0]
    ELSE FromIsoFormat(IF content.doc.at.k = "absent"
                       THEN IsoFormat(EPOCH_1970) ELSE content.doc.at)

\* except (json.JSONDecodeError, KeyError, ValueError) of the two get methods
GetHandled == {"JSONDecodeError", "KeyError", "ValueError"}

\* if datetime.now() - cached_time > timedelta(...)
ExpiredAtTtl(age, ttl) == age >= ttl
Expired(age, ttl) == age > ttl

\* data.get('results', []) and data.get('paper_info')
GetReturn(ns, doc) ==
    IF doc.data.k = "absent"
    THEN IF ns = "searches" THEN Value(<<>>) ELSE NoneValue
    ELSE Value(doc.data.v)

FileAt(f) == IF f \in CacheFiles THEN store[f] ELSE NoFile

Remove(f) == [store EXCEPT ![f] = NoFile]

CacheOp(op, ns, key, arg, result, logged) ==
    [op |-> op, ns |-> ns, key |-> key, at |-> now, arg |-> arg,
     result |-> result, logged |-> logged]

NoLog == [papers |-> 0, searches |-> 0]

\* get_paper_info / get_search_results: what the call does to the cache
CacheGetEffect(ns, key) ==
    LET f == CacheFile(ns, key)
        c == FileAt(f)
        t == CachedTime(c)
        done(st, result) ==
            /\ store' = st
            /\ cres' = CacheOp("get", ns, key, NoneValue, result, NoLog)
    IN  IF c.kind = "nofile" THEN done(store, NoneValue)
        ELSE IF t.exc = "none"
        THEN IF Expired(now - t.hour, Ttl(ns))
             THEN done(Remove(f), NoneValue)
             ELSE done(store, GetReturn(ns, c.doc))
        ELSE IF t.exc \in GetHandled THEN done(Remove(f), NoneValue)
        ELSE done(store, Raised(t.exc))

\* a direct call of one of the two get methods
CacheGet(ns, key) ==
    /\ CacheGetEffect(ns, key)
    /\ UNCHANGED <<now, pres, searchVars, disk, syncVars, rt, asyncVars, apiVars>>

get_paper_info(paper_id) == CacheGet("papers", paper_id)

get_search_results(query_hash) == CacheGet("searches", query_hash)

\* save_paper_info / save_search_results: open(cache_file, 'w') raises
\* FileNotFoundError when the file's directory does not exist, and
\* `except Exception` only logs a warning
CacheSaveEffect(ns, key, payload) ==
    LET f == CacheFile(ns, key)
    IN  /\ store' = IF f \in CacheFiles
                    THEN [store EXCEPT ![f] = JsonDump(payload, now)]
                    ELSE store
        /\ cres' = CacheOp("save", ns, key, Value(payload), NoneValue, NoLog)

\* a direct call of one of the two save methods
CacheSave(ns, key, payload) ==
    /\ CacheSaveEffect(ns, key, payload)
    /\ UNCHANGED <<now, pres, searchVars, disk, syncVars, rt, asyncVars, apiVars>>

save_paper_info(paper_id, paper_info) == CacheSave("papers", paper_id, paper_info)

save_search_results(query_hash, results) == CacheSave("searches", query_hash, results)

\* `except Exception` of clear_expired_cache
ClearHandlesNarrow(exc) == exc \in GetHandled
ClearHandles(exc) == TRUE

\* the files of a namespace that clear_expired_cache unlinks
Cleared(ns) ==
    {f \in CacheFiles :
        /\ f[1] = ns
        /\ store[f].kind # "nofile"
        /\ LET t == CachedTime(store[f])
           IN  IF t.exc = "none" THEN Expired(now - t.hour, Ttl(ns))
               ELSE ClearHandles(t.exc)}

\* clear_expired_cache(self) -> None: the counts go to the log
clear_expired_cache ==
    LET papers == Cleared("papers")
        searches == Cleared("searches")
    IN  /\ cres' = CacheOp("clear", "papers", <<>>, NoneValue, NoneValue,
                           [papers |-> Cardinality(papers),
                            searches |-> Cardinality(searches)])
        /\ store' = [f \in CacheFiles |->
                        IF f \in papers \cup searches THEN NoFile ELSE store[f]]
        /\ UNCHANGED <<now, pres, searchVars, disk, syncVars, rt, asyncVars, apiVars>>

\* payloads: paper dictionaries and lists of them
Payloads(ns) == IF ns = "papers" THEN {P1, P3} ELSE {<<>>, <<P1, P3>>}

\* what a damaged or foreign cache file can hold
CorruptContents(ns) ==
    {Garbage, JsonArray} \cup
    {JsonObject(at, [k |-> "val", v |-> CHOOSE p \in Payloads(ns) : TRUE]) :
        at \in {Absent, BadText, Number}} \cup
    {JsonObject(IsoFormat(now), [k |-> "absent"])}

\* a cache file is damaged or replaced from outside the program
CorruptEntry(f, c) ==
    /\ f \in DirectFiles
    /\ c \in CorruptContents(f[1])
    /\ store' = [store EXCEPT ![f] = c]
    /\ cres' = CacheOp("corrupt", f[1], <<>>, NoneValue, NoneValue, NoLog)
    /\ UNCHANGED <<now, pres, searchVars, disk, syncVars, rt, asyncVars, apiVars>>

\* time passes
Tick(t) ==
    /\ t > now
    /\ now' = t
    /\ UNCHANGED <<store, cres, pres, searchVars, disk, syncVars, rt, asyncVars, apiVars>>

InitCache == disk \in InitDisks({}) /\ InitCommon

NextCache ==
    \/ \E key \in CacheKeys("papers"), p \in Payloads("papers") :
          save_paper_info(key, p)
    \/ \E key \in CacheKeys("searches"), p \in Payloads("searches") :
          save_search_results(key, p)
    \/ \E key \in CacheKeys("papers") : get_paper_info(key)
    \/ \E key \in CacheKeys("searches") : get_search_results(key)
    \/ clear_expired_cache
    \/ \E f \in DirectFiles : \E c \in CorruptContents(f[1]) : CorruptEntry(f, c)
    \/ \E t \in Instants : Tick(t)

SpecCache == InitCache /\ [][NextCache]_vars

\* ------------------------------------------------------------------------
\* models.Paper and the response parsers:
\* ArxivDownloader._parse_arxiv_response, EnhancedArxivAPI._parse_response
\* ------------------------------------------------------------------------
\* what find() gives for a child element: none, one without text (its .text
\* is None), or one with text
Missing == [present |-> FALSE, text |-> NoneValue]
NoText == [present |-> TRUE, text |-> NoneValue]
Text(s) == [present |-> TRUE, text |-> Value(s)]

\* the fields of the dataclass models.Paper
PaperFields ==
    {"id", "title", "authors", "abstract", "pdf_url", "published", "categories"}

StartsWith(s, prefix) ==
    Len(s) >= Len(prefix) /\ SubSeq(s, 1, Len(prefix)) = prefix

\* a Paper without __post_init__: any record of the seven fields is taken
unvalidated_paper(kwargs) ==
    IF DOMAIN kwargs # PaperFields THEN Raised("TypeError")
    ELSE Value([cls |-> "Paper", fields |-> kwargs])

\* Paper(**kwargs): the generated __init__ takes exactly the fields, then
\* __post_init__ validates id, title and pdf_url
NewPaper(kwargs) ==
    IF DOMAIN kwargs # PaperFields THEN Raised("TypeError")
    ELSE IF kwargs.id = <<>> \/ kwargs.title = <<>> THEN Raised("ValidationError")
    ELSE IF kwargs.pdf_url = <<>> \/ ~StartsWith(kwargs.pdf_url, <<"h", "t", "t", "p">>)
         THEN Raised("ValidationError")
    ELSE Value([cls |-> "Paper", fields |-> kwargs])

\* text.split('/')[-1]
LastPart(s) == PathParts(s)[Len(PathParts(s))]

\* utils.clean_text
clean_text(s) == Strip(CollapseWhitespace(s))

\* utils.validate_url: re.match(r'^https?://[^\s/$.?#].[^\s]*$', url,
\* re.IGNORECASE); `$` also matches before one final newline
validate_url(url) ==
    LET lower(c) == IF c = "H" THEN "h" ELSE IF c = "T" THEN "t"
                    ELSE IF c = "P" THEN "p" ELSE IF c = "S" THEN "s" ELSE c
        low == [i \in 1..Len(url) |-> lower(url[i])]
        n == IF StartsWith(low, <<"h", "t", "t", "p", ":", "/", "/">>) THEN 7
             ELSE IF StartsWith(low, <<"h", "t", "t", "p", "s", ":", "/", "/">>) THEN 8
             ELSE 0
        rest == SubSeq(url, n + 1, Len(url))
        body == IF rest # <<>> /\ rest[Len(rest)] = "\n"
                THEN SubSeq(rest, 1, Len(rest) - 1) ELSE rest
    IN  /\ n > 0
        /\ Len(body) >= 2
        /\ body[1] \notin WHITESPACE \cup {"/", "$", ".", "?", "#"}
        /\ body[2] # "\n"
        /\ \A i \in 3..Len(body) : body[i] \notin WHITESPACE

\* the href of the first <link> whose type is application/pdf
PdfHref(links) ==
    LET pdf == {i \in DOMAIN links : links[i].type = "application/pdf"}
    IN  IF pdf = {} THEN NoneValue
        ELSE links[CHOOSE i \in pdf : \A j \in pdf : i <= j].href

\* the term attributes that are not empty
Terms(e) == SelectSeq(e.terms, LAMBDA t : t # <<>>)

\* ArxivDownloader._parse_paper_entry: the dictionary, None, or the
\* AttributeError of None.split / None.replace / None.strip
parse_paper_entry(e) ==
    LET named == SelectSeq(e.names, LAMBDA a : a.present)
        pdf_url == PdfHref(e.links)
    IN  IF ~e.id.present THEN NoneValue
        ELSE IF e.id.text.kind = "None" THEN Raised("AttributeError")
        ELSE IF ~e.title.present THEN NoneValue
        ELSE IF e.title.text.kind = "None" THEN Raised("AttributeError")
        ELSE IF \E i \in DOMAIN named : named[i].text.kind = "None"
             THEN Raised("AttributeError")
        ELSE IF e.summary.present /\ e.summary.text.kind = "None"
             THEN Raised("AttributeError")
        ELSE IF ~Truthy(pdf_url) \/ ~validate_url(pdf_url.value) THEN NoneValue
        ELSE Value([id |-> LastPart(e.id.text.value),
                    title |-> clean_text(e.title.text.value),
                    authors |-> [i \in DOMAIN named |-> Strip(named[i].text.value)],
                    abstract |-> IF e.summary.present
                                 THEN clean_text(e.summary.text.value) ELSE <<>>,
                    pdf_url |-> pdf_url.value,
                    published |-> IF e.published.present
                                  THEN e.published.text ELSE Value(<<>>),
                    categories |-> Terms(e)])

\* except (ValidationError, KeyError) around one entry
EntryHandled == {"ValidationError", "KeyError"}

\* the loop over the entries of _parse_arxiv_response
RECURSIVE ParseEntries(_)
ParseEntries(entries) ==
    IF entries = <<>> THEN Value(<<>>)
    ELSE LET d == parse_paper_entry(Head(entries))
             p == IF d.kind = "value" THEN NewPaper(d.value) ELSE d
         IN  IF p.kind = "raise" /\ p.exc \notin EntryHandled THEN p
             ELSE LET rest == ParseEntries(Tail(entries))
                  IN  IF rest.kind = "raise" THEN rest
                      ELSE IF p.kind = "value"
                      THEN Value(<<p.value>> \o rest.value)
                      ELSE rest

\* ET.fromstring raises ET.ParseError for a body that is not well-formed
parse_arxiv_response(body) ==
    IF ~body.wf THEN Raised("ParseError") ELSE ParseEntries(body.entries)

\* EnhancedArxivAPI._extract_text
extract_text(elem) ==
    IF elem.present /\ Truthy(elem.text) THEN Value(Strip(elem.text.value))
    ELSE NoneValue

\* x or ""
OrEmpty(v) == IF Truthy(v) THEN v.value ELSE <<>>

\* EnhancedArxivAPI._parse_paper_entry: Paper(..., comment=, journal_ref=,
\* doi=) inside try / except Exception: return None
enhanced_parse_paper_entry(e) ==
    LET paper_id == extract_text(e.id)
        title == extract_text(e.title)
        summary == extract_text(e.summary)
        names == [i \in DOMAIN e.names |-> extract_text(e.names[i])]
        named == SelectSeq(names, Truthy)
        href == PdfHref(e.links)
        p == NewPaper(
                 [id |-> IF Truthy(paper_id) THEN LastPart(paper_id.value) ELSE <<>>,
                  title |-> IF Truthy(title) THEN clean_text(title.value) ELSE <<>>,
                  authors |-> [i \in DOMAIN named |-> named[i].value],
                  abstract |-> IF Truthy(summary) THEN clean_text(summary.value) ELSE <<>>,
                  pdf_url |-> OrEmpty(href),
                  published |-> Value(OrEmpty(extract_text(e.published))),
                  categories |-> Terms(e),
                  comment |-> extract_text(e.comment),
                  journal_ref |-> extract_text(e.journal_ref),
                  doi |-> extract_text(e.doi)])
    IN  IF p.kind = "raise" THEN NoneValue ELSE p

\* EnhancedArxivAPI._parse_response
RECURSIVE EnhancedEntries(_)
EnhancedEntries(entries) ==
    IF entries = <<>> THEN <<>>
    ELSE LET p == enhanced_parse_paper_entry(Head(entries))
         IN  (IF p.kind = "value" THEN <<p.value>> ELSE <<>>)
             \o EnhancedEntries(Tail(entries))

parse_response(body) ==
    IF ~body.wf THEN Raised("ParseError") ELSE Value(EnhancedEntries(body.entries))

\* ---- feeds ----
GoodUrl == <<"h", "t", "t", "p", ":", "/", "/", "a", ".", "b">>
UpperUrl == <<"H", "T", "T", "P", ":", "/", "/", "a", ".", "b">>
BadUrl == <<"f", "t", "p", ":", "/", "/", "a", ".", "b">>

HtmlLink == [type |-> "text/html", href |-> Value(GoodUrl)]
PdfLink(href) == [type |-> "application/pdf", href |-> href]

\* two well-formed entries
E1 == [id |-> Text(<<"a", "/", "1">>), title |-> Text(<<"T", " ", "\n", "x">>),
       names |-> <<Text(<<"A", " ">>)>>, summary |-> Text(<<"s">>),
       links |-> <<HtmlLink, PdfLink(Value(GoodUrl))>>,
       published |-> Text(<<"d">>), terms |-> << <<"c">> >>,
       comment |-> Missing, journal_ref |-> Missing, doi |-> Missing]

E2 == [E1 EXCEPT !.id = Text(<<"a", "/", "2">>), !.title = Text(<<"U">>),
                 !.comment = Text(<<"k">>), !.journal_ref = Text(<<"j">>),
                 !.doi = Text(<<"1", "0">>)]

\* entries that lack an element or a link, or hold one that is not usable
EntryKinds ==
    {E1, E2,
     [E1 EXCEPT !.id = Missing],
     [E1 EXCEPT !.id = NoText],
     [E1 EXCEPT !.id = Text(<<"a", "/">>)],
     [E1 EXCEPT !.title = Missing],
     [E1 EXCEPT !.title = NoText],
     [E1 EXCEPT !.title = Text(<<" ">>)],
     [E1 EXCEPT !.names = <<Missing>>],
     [E1 EXCEPT !.names = <<NoText>>],
     [E1 EXCEPT !.summary = NoText],
     [E1 EXCEPT !.links = <<HtmlLink>>],
     [E1 EXCEPT !.links = <<PdfLink(NoneValue)>>],
     [E1 EXCEPT !.links = <<PdfLink(Value(BadUrl))>>],
     [E1 EXCEPT !.links = <<PdfLink(Value(UpperUrl))>>]}

\* number of entries of a feed
MaxEntries == 2

Feed(entries) == [wf |-> TRUE, entries |-> entries]

\* a body that is not well-formed XML
MalformedBody == [wf |-> FALSE, entries |-> <<>>]

Bodies ==
    {MalformedBody} \cup
    {Feed(es) : es \in UNION {[1..n -> EntryKinds] : n \in 0..MaxEntries}}

\* a call of one of the two parsers on a response body
ParseArxivResponse(body) ==
    /\ pres.parser = "none"
    /\ pres' = [parser |-> "basic", body |-> body,
                result |-> parse_arxiv_response(body)]
    /\ UNCHANGED <<cacheVars, searchVars, disk, syncVars, rt, asyncVars, apiVars>>

ParseResponse(body) ==
    /\ pres.parser = "none"
    /\ pres' = [parser |-> "enhanced", body |-> body,
                result |-> parse_response(body)]
    /\ UNCHANGED <<cacheVars, searchVars, disk, syncVars, rt, asyncVars, apiVars>>

InitParse == disk \in InitDisks({}) /\ InitCommon

NextParse ==
    \/ \E body \in Bodies : ParseArxivResponse(body)
    \/ \E body \in Bodies : ParseResponse(body)

SpecParse == InitParse /\ [][NextParse]_vars

\* ------------------------------------------------------------------------
\* The date clause of a search query: the inline builder of
\* ArxivDownloader.search_papers and DateRange.to_query_string
\* ------------------------------------------------------------------------
\* date.replace('-', '')
RemoveDashes(s) == SelectSeq(s, LAMBDA c : c # "-")

\* SearchField(Enum): the value of a member
SearchFieldValue(field) ==
    CASE field = "ALL" -> <<"a", "l", "l">>
      [] field = "TITLE" -> <<"t", "i">>
      [] field = "AUTHOR" -> <<"a", "u">>
      [] field = "ABSTRACT" -> <<"a", "b", "s">>
      [] field = "CATEGORY" -> <<"c", "a", "t">>
      [] field = "SUBMITTED_DATE" ->
           <<"s", "u", "b", "m", "i", "t", "t", "e", "d", "D", "a", "t", "e">>
      [] field = "LAST_UPDATED_DATE" ->
           <<"l", "a", "s", "t", "U", "p", "d", "a", "t", "e", "d", "D", "a", "t", "e">>

TO == <<"+", "T", "O", "+">>
DAY_START == <<"0", "0", "0", "0">>
DAY_END == <<"2", "3", "5", "9">>

\* a builder that writes the day's first and last minute for both bounds,
\* whether they are given or not
InlineDateFilterClosed(date_from, date_to) ==
    IF ~(Truthy(date_from) \/ Truthy(date_to)) THEN <<>>
    ELSE SearchFieldValue("SUBMITTED_DATE") \o <<":", "[">>
         \o (IF Truthy(date_from) THEN RemoveDashes(date_from.value) ELSE <<>>)
         \o DAY_START \o TO
         \o (IF Truthy(date_to) THEN RemoveDashes(date_to.value) ELSE <<>>)
         \o DAY_END \o <<"]">>

\* search_papers, lines 88-96: date_filter, the empty string standing for
\* "no filter is added"
InlineDateFilter(date_from, date_to) ==
    IF ~(Truthy(date_from) \/ Truthy(date_to)) THEN <<>>
    ELSE SearchFieldValue("SUBMITTED_DATE") \o <<":">> \o
         (IF Truthy(date_from) /\ Truthy(date_to)
          THEN <<"[">> \o RemoveDashes(date_from.value) \o DAY_START \o TO
               \o RemoveDashes(date_to.value) \o DAY_END \o <<"]">>
          ELSE IF Truthy(date_from)
          THEN <<"[">> \o RemoveDashes(date_from.value) \o DAY_START \o TO
               \o <<"*", "]">>
          ELSE <<"[", "*">> \o TO \o RemoveDashes(date_to.value) \o DAY_END
               \o <<"]">>)

\* search_papers, lines 85-98: search_query
InlineSearchQuery(a) ==
    IF Truthy(a.date_from) \/ Truthy(a.date_to)
    THEN a.query \o <<"+", "A", "N", "D", "+">>
         \o InlineDateFilter(a.date_from, a.date_to)
    ELSE a.query

\* search_papers, lines 100-106: params
SearchParams(a) ==
    [search_query |-> InlineSearchQuery(a), start |-> 0,
     max_results |-> a.max_results, sortBy |-> "submittedDate",
     sortOrder |-> "descending"]

\* DateRange.to_query_string
to_query_string(range) ==
    IF ~Truthy(range.start_date) /\ ~Truthy(range.end_date) THEN <<>>
    ELSE LET start == IF Truthy(range.start_date)
                      THEN RemoveDashes(range.start_date.value) \o DAY_START
                      ELSE <<"*">>
             end == IF Truthy(range.end_date)
                    THEN RemoveDashes(range.end_date.value) \o DAY_END
                    ELSE <<"*">>
         IN  SearchFieldValue(range.field) \o <<":", "[">> \o start \o TO \o end
             \o <<"]">>

\* the dates of a range: absent (None or the empty string) or YYYY-MM-DD
RangeDates ==
    {NoneValue, Value(<<>>), Value(DATE),
     Value(<<"2", "0", "2", "3", "-", "1", "2", "-", "3", "1">>),
     Value(<<"1", "9", "9", "9", "-", "0", "7", "-", "0", "4">>),
     Value(<<"2", "0", "2", "4", "-", "0", "2", "-", "2", "9">>)}

DateFields == {"SUBMITTED_DATE", "LAST_UPDATED_DATE"}

DateRanges == [start_date : RangeDates, end_date : RangeDates, field : DateFields]

\* the inline builder runs on the dates search_papers was given
BuildInline(date_from, date_to) ==
    /\ qb.builder = "none"
    /\ qb' = [builder |-> "inline",
              range |-> [start_date |-> date_from, end_date |-> date_to,
                         field |-> "SUBMITTED_DATE"],
              clause |-> InlineDateFilter(date_from, date_to)]
    /\ UNCHANGED <<eapi, plugins, hook, cacheVars, pres, searchVars, disk, syncVars,
                   rt, asyncVars>>

\* DateRange(start_date, end_date, field).to_query_string()
BuildDateRange(range) ==
    /\ qb.builder = "none"
    /\ qb' = [builder |-> "DateRange", range |-> range,
              clause |-> to_query_string(range)]
    /\ UNCHANGED <<eapi, plugins, hook, cacheVars, pres, searchVars, disk, syncVars,
                   rt, asyncVars>>

InitQuery == disk \in InitDisks({}) /\ InitCommon

NextQuery ==
    \/ \E date_from \in RangeDates, date_to \in RangeDates :
          BuildInline(date_from, date_to)
    \/ \E range \in DateRanges : BuildDateRange(range)

SpecQuery == InitQuery /\ [][NextQuery]_vars

\* ------------------------------------------------------------------------
\* ArxivDownloader.search_papers
\* ------------------------------------------------------------------------
\* number of search_papers calls of a behaviour
MaxSearches == 2

\* ArxivDownloader._paper_to_dict
paper_to_dict(paper) ==
    [id |-> paper.fields.id, title |-> paper.fields.title,
     authors |-> paper.fields.authors, abstract |-> paper.fields.abstract,
     pdf_url |-> paper.fields.pdf_url, published |-> paper.fields.published,
     categories |-> paper.fields.categories]

\* [Paper(**paper_data) for paper_data in cached_results]
\* the first record Paper refuses ends the comprehension with its exception
FromCache(dicts) ==
    LET made == [i \in DOMAIN dicts |-> NewPaper(dicts[i])]
        refused == {i \in DOMAIN made : made[i].kind = "raise"}
    IN  IF refused = {} THEN Value([i \in DOMAIN made |-> made[i].value])
        ELSE made[CHOOSE i \in refused : \A j \in refused : i <= j]

\* the bodies the server answers with
SearchBodies == {Feed(<<E1>>), Feed(<<E2, E1>>), MalformedBody}

\* a request of a search either answers or times out
SearchFailures == {"timeout"}

\* the hours at which searches are made: up to one hour past the TTL
SearchInstants == 0..(SEARCH_TTL_HOURS + 1)

SearchDone(a, result, requests, sleeps, lookups) ==
    [pc |-> "done", n |-> sr.n + 1, args |-> a, result |-> result,
     requests |-> requests, sleeps |-> sleeps, lookups |-> lookups, at |-> now,
     params |-> IF sr.pc = "requesting" THEN sr.params ELSE NoneValue]

\* lines 67-109: validation, cache lookup, then the request is started
SearchBegin(a) ==
    /\ sr.pc \in {"idle", "done"}
    /\ rt.pc = "idle"
    /\ sr.n < MaxSearches
    /\ IF ~PassesValidation(a)
       THEN /\ sr' = SearchDone(a, Raised("ValidationError"), 0, 0, 0)
            /\ UNCHANGED <<store, cres, rt>>
       ELSE /\ CacheGetEffect("searches", generate_query_hash(a))
            /\ IF cres'.result.kind = "value"
               THEN /\ sr' = SearchDone(a, FromCache(cres'.result.value), 0, 0, 1)
                    /\ UNCHANGED rt
               ELSE IF cres'.result.kind = "raise"
               THEN /\ sr' = SearchDone(a, cres'.result, 0, 0, 1)
                    /\ UNCHANGED rt
               ELSE /\ sr' = [sr EXCEPT !.pc = "requesting", !.args = a,
                                        !.result = NoneValue, !.requests = 0,
                                        !.sleeps = 0, !.lookups = 1, !.at = now,
                                        !.params = Value(SearchParams(a))]
                    /\ rt' = BeginRetry("search", MAX_RETRIES, RETRY_DELAY_BASE,
                                        "flaky", P1)
    /\ UNCHANGED <<now, hist, pres, disk, syncVars, asyncVars, apiVars>>

\* the statements after _parse_arxiv_response inside the try block run only
\* when the parser returned
CachesAlways(r) == TRUE
CachesResult(r) == r.kind = "value"

\* lines 111-120: the response is parsed, the papers are cached and returned;
\* an exception of the parser leaves search_papers
SearchResponse(body) ==
    /\ sr.pc = "requesting"
    /\ rt.pc = "returned"
    /\ LET r == parse_arxiv_response(body)
           papers == IF r.kind = "value" THEN r.value ELSE <<>>
       IN  /\ sr' = SearchDone(sr.args, r, rt.requests, Len(rt.sleeps), sr.lookups)
           /\ IF CachesResult(r)
              THEN CacheSaveEffect("searches", generate_query_hash(sr.args),
                                   [i \in DOMAIN papers |-> paper_to_dict(papers[i])])
              ELSE UNCHANGED <<store, cres>>
           /\ hist' = IF r.kind = "value"
                      THEN {h \in hist : h.args # sr.args}
                           \cup {[args |-> sr.args, papers |-> papers, at |-> now]}
                      ELSE hist
    /\ rt' = IdleRetry
    /\ UNCHANGED <<now, pres, disk, syncVars, asyncVars, apiVars>>

\* _make_request_with_retry raised NetworkError after its last attempt
SearchNetworkError ==
    /\ sr.pc = "requesting"
    /\ rt.pc = "raised"
    /\ sr' = SearchDone(sr.args, Raised("NetworkError"), rt.requests,
                        Len(rt.sleeps), sr.lookups)
    /\ rt' = IdleRetry
    /\ UNCHANGED <<store, cres, now, hist, pres, disk, syncVars, asyncVars, apiVars>>

InitSearch == disk \in InitDisks({}) /\ InitCommon

NextSearch ==
    \/ \E a \in SearchArgs : SearchBegin(a)
    \/ RetryRequestOk
    \/ \E kind \in SearchFailures : RetryRequestFail(kind)
    \/ \E body \in SearchBodies : SearchResponse(body)
    \/ SearchNetworkError
    \/ \E t \in SearchInstants : sr.pc # "requesting" /\ Tick(t)

SpecSearch == InitSearch /\ [][NextSearch]_vars

\* ---- search_papers over a cache directory it did not write itself ----
\* a record as search_papers caches it
CachedRecord == paper_to_dict(parse_arxiv_response(Feed(<<E1>>)).value[1])

\* records of a search-cache file left by an earlier version of the program
\* or written by hand: empty id, empty title, a pdf_url that is no http URL,
\* a missing key
StaleRecords ==
    {CachedRecord,
     [CachedRecord EXCEPT !.id = <<>>],
     [CachedRecord EXCEPT !.title = <<>>],
     [CachedRecord EXCEPT !.pdf_url = BadUrl],
     [f \in PaperFields \ {"categories"} |-> CachedRecord[f]]}

StaleResults ==
    {<<r>> : r \in StaleRecords} \cup {<<CachedRecord, [CachedRecord EXCEPT !.id = <<>>]>>}

\* the arguments whose cache file is found in the directory
StaleArgs == [query |-> QUERY, date_from |-> NoneValue, date_to |-> NoneValue,
              max_results |-> 1]

\* a well-formed search-cache file is in the directory when the program
\* makes its first search
LeaveSearchFile(results) ==
    /\ sr.pc = "idle"
    /\ rt.pc = "idle"
    /\ FileAt(CacheFile("searches", generate_query_hash(StaleArgs))).kind = "nofile"
    /\ store' = [store EXCEPT ![CacheFile("searches", generate_query_hash(StaleArgs))] =
                    JsonDump(results, now)]
    /\ UNCHANGED <<cres, now, pres, searchVars, disk, syncVars, rt, asyncVars, apiVars>>

\* the searches of one hour: the file that was found does not expire
NextSearchStale ==
    \/ \E results \in StaleResults : LeaveSearchFile(results)
    \/ \E a \in SearchArgs : SearchBegin(a)
    \/ RetryRequestOk
    \/ \E kind \in SearchFailures : RetryRequestFail(kind)
    \/ \E body \in SearchBodies : SearchResponse(body)
    \/ SearchNetworkError

SpecSearchStale == InitSearch /\ [][NextSearchStale]_vars

\* ------------------------------------------------------------------------
\* EnhancedArxivAPI.search_papers (src/enhanced_arxiv_api.py)
\* ------------------------------------------------------------------------
\* A query is None, a string, a SearchQuery or a list; a list may hold
\* SearchQuery objects and anything else.
Str(s) == [kind |-> "str", value |-> s]

SearchQuery(terms, field, operator) ==
    [kind |-> "SearchQuery", terms |-> terms, field |-> field, operator |-> operator]

QueryList(items) == [kind |-> "list", value |-> items]

\* bool(x) of a query: None, "" and [] are false, an object is true
QueryTruthy(q) ==
    CASE q.kind = "None" -> FALSE
      [] q.kind = "SearchQuery" -> TRUE
      [] OTHER -> q.value # <<>>

\* sep.join(parts)
RECURSIVE Join(_, _)
Join(parts, sep) ==
    IF parts = <<>> THEN <<>>
    ELSE IF Len(parts) = 1 THEN parts[1]
    ELSE parts[1] \o sep \o Join(Tail(parts), sep)

\* f'"{term}"' if ' ' in term else term
Quoted(term) ==
    IF \E i \in DOMAIN term : term[i] = " "
    THEN <<"\"">> \o term \o <<"\"">>
    ELSE term

\* SearchQuery.to_string
to_string(q) ==
    IF q.terms = <<>> THEN <<>>
    ELSE LET field_prefix == IF q.field # "ALL"
                             THEN SearchFieldValue(q.field) \o <<":">>
                             ELSE <<>>
         IN  IF Len(q.terms) = 1 THEN field_prefix \o q.terms[1]
             ELSE field_prefix \o <<"(">>
                  \o Join([i \in DOMAIN q.terms |-> Quoted(q.terms[i])],
                          <<" ">> \o q.operator \o <<" ">>)
                  \o <<")">>

LOWER_OR_DASH ==
    {"a", "b", "c", "d", "e", "f", "g", "h", "i", "j", "k", "l", "m", "n", "o",
     "p", "q", "r", "s", "t", "u", "v", "w", "x", "y", "z", "-"}

IsDigit(c) == \E k \in DOMAIN DIGITS : c = DIGITS[k]

AllDigits(s) == \A i \in DOMAIN s : IsDigit(s[i])

\* (v\d+)? up to the end
VersionSuffix(s) ==
    s = <<>> \/ (Len(s) >= 2 /\ s[1] = "v" /\ AllDigits(Tail(s)))

\* [a-z-]+/\d{7}(v\d+)? over the whole of s
OldFormat(s) ==
    \E i \in 2..Len(s) :
        /\ s[i] = "/"
        /\ \A j \in 1..(i - 1) : s[j] \in LOWER_OR_DASH
        /\ Len(s) >= i + 7
        /\ AllDigits(SubSeq(s, i + 1, i + 7))
        /\ VersionSuffix(SubSeq(s, i + 8, Len(s)))

\* \d{4}\.\d{4,5}(v\d+)? over the whole of s
NewFormat(s) ==
    \E k \in {4, 5} :
        /\ Len(s) >= 5 + k
        /\ AllDigits(SubSeq(s, 1, 4))
        /\ s[5] = "."
        /\ AllDigits(SubSeq(s, 6, 5 + k))
        /\ VersionSuffix(SubSeq(s, 6 + k, Len(s)))

\* EnhancedArxivAPI._is_valid_arxiv_id: re.match with ^...$, where `$`
\* matches at the end and also before a newline that ends the string
is_valid_arxiv_id(s) ==
    LET whole(x) == OldFormat(x) \/ NewFormat(x)
    IN  \/ whole(s)
        \/ Len(s) >= 1 /\ s[Len(s)] = "\n" /\ whole(SubSeq(s, 1, Len(s) - 1))

\* `if id_list:` before the loop over the ids
ChecksNoIds(r) == FALSE
ChecksIds(r) == Truthy(r.id_list)

\* EnhancedArxivAPI._validate_search_params: what it raises, or None
validate_search_params(r) ==
    IF ~QueryTruthy(r.query) /\ ~Truthy(r.id_list) /\ ~Truthy(r.categories)
    THEN Raised("ValidationError")
    ELSE IF r.max_results <= 0 THEN Raised("ValidationError")
    ELSE IF r.start < 0 THEN Raised("ValidationError")
    ELSE IF /\ ChecksIds(r)
            /\ \E i \in DOMAIN r.id_list.value :
                  ~is_valid_arxiv_id(r.id_list.value[i])
    THEN Raised("ValidationError")
    ELSE NoneValue

\* the query parts of _build_query_params, in the order they are appended
QueryParts(r) ==
    (IF ~QueryTruthy(r.query) THEN <<>>
     ELSE IF r.query.kind = "str" THEN <<r.query.value>>
     ELSE IF r.query.kind = "SearchQuery" THEN <<to_string(r.query)>>
     ELSE LET qs == SelectSeq(r.query.value, LAMBDA q : q.kind = "SearchQuery")
          IN  [i \in DOMAIN qs |-> to_string(qs[i])])
    \o (IF r.date_range.kind = "value" /\ to_query_string(r.date_range.value) # <<>>
        THEN <<to_query_string(r.date_range.value)>>
        ELSE <<>>)
    \o (IF ~Truthy(r.categories) THEN <<>>
        ELSE LET cat_queries == [i \in DOMAIN r.categories.value |->
                                    <<"c", "a", "t", ":">> \o r.categories.value[i]]
             IN  IF Len(cat_queries) = 1 THEN <<cat_queries[1]>>
                 ELSE <<(<<"(">> \o Join(cat_queries, <<" ", "O", "R", " ">>)
                         \o <<")">>)>>)

\* EnhancedArxivAPI._build_query_params; a key the dictionary lacks is None
build_query_params(r) ==
    [search_query |-> IF QueryParts(r) # <<>>
                      THEN Value(Join(QueryParts(r), <<" ", "A", "N", "D", " ">>))
                      ELSE NoneValue,
     id_list |-> IF Truthy(r.id_list)
                 THEN Value(Join(r.id_list.value, <<",">>))
                 ELSE NoneValue,
     start |-> r.start, max_results |-> r.max_results,
     sortBy |-> r.sort_by, sortOrder |-> r.sort_order]

\* ---- requests ----
TITLE_TERM == <<"d", "e", "e", "p", " ", "l", "e", "a", "r", "n", "i", "n", "g">>
AND == <<"A", "N", "D">>
OR == <<"O", "R">>

Queries ==
    {NoneValue, Str(<<>>), Str(QUERY), QueryList(<<>>),
     SearchQuery(<<>>, "ALL", AND),
     SearchQuery(<<TITLE_TERM>>, "TITLE", AND),
     SearchQuery(<<TITLE_TERM, QUERY>>, "ALL", OR),
     QueryList(<<SearchQuery(<<>>, "ALL", AND)>>),
     QueryList(<<Str(QUERY), SearchQuery(<<QUERY, QUERY>>, "ABSTRACT", AND)>>)}

NEW_ID == <<"2", "3", "0", "1", ".", "0", "0", "0", "0", "1">>
OLD_ID == <<"h", "e", "p", "-", "t", "h", "/", "9", "9", "0", "1", "0", "0", "1", "v", "2">>
INVALID_ID == <<"i", "n", "v", "a", "l", "i", "d", "-", "i", "d">>

IdLists ==
    {NoneValue, Value(<<>>), Value(<<NEW_ID>>), Value(<<OLD_ID, NEW_ID>>),
     Value(<<NEW_ID, INVALID_ID>>), Value(<<NEW_ID \o <<"\n">>>>)}

CS_AI == <<"c", "s", ".", "A", "I">>
CS_LG == <<"c", "s", ".", "L", "G">>

CategoryLists == {NoneValue, Value(<<>>), Value(<<CS_AI>>), Value(<<CS_AI, CS_LG>>)}

JANUARY == [start_date |-> Value(DATE), end_date |-> NoneValue,
            field |-> "SUBMITTED_DATE"]

EnhancedRequests ==
    [query : Queries, id_list : IdLists, categories : CategoryLists,
     date_range : {NoneValue}, max_results : {1}, start : {0},
     sort_by : {"relevance"}, sort_order : {"descending"}]
    \cup [query : {NoneValue, Str(QUERY)}, id_list : {NoneValue},
          categories : {NoneValue}, date_range : {NoneValue, Value(JANUARY)},
          max_results : {-1, 0, 1}, start : {-1, 0},
          sort_by : {"relevance", "submittedDate"},
          sort_order : {"descending"}]

\* the bodies the server answers with
EnhancedBodies == {Feed(<<E1>>), MalformedBody}

\* lines 156-172: validation, the parameters, then the request is started
EnhancedSearchBegin(r) ==
    /\ eapi.pc = "idle"
    /\ rt.pc = "idle"
    /\ IF validate_search_params(r).kind = "raise"
       THEN /\ eapi' = [pc |-> "done", request |-> r, params |-> NoneValue,
                        result |-> validate_search_params(r), requests |-> 0]
            /\ UNCHANGED rt
       ELSE /\ eapi' = [pc |-> "requesting", request |-> r,
                        params |-> Value(build_query_params(r)),
                        result |-> NoneValue, requests |-> 0]
            /\ rt' = BeginRetry("enhanced", MAX_RETRIES, RETRY_DELAY_BASE,
                                "flaky", P1)
    /\ UNCHANGED <<qb, plugins, hook, cacheVars, pres, searchVars, disk, syncVars,
                   asyncVars>>

\* lines 172-178: the response is parsed and the papers are returned
EnhancedSearchResponse(body) ==
    /\ eapi.pc = "requesting"
    /\ rt.pc = "returned"
    /\ eapi' = [eapi EXCEPT !.pc = "done", !.result = parse_response(body),
                            !.requests = rt.requests]
    /\ rt' = IdleRetry
    /\ UNCHANGED <<qb, plugins, hook, cacheVars, pres, searchVars, disk, syncVars,
                   asyncVars>>

\* _make_request raised NetworkError after its last attempt
EnhancedSearchNetworkError ==
    /\ eapi.pc = "requesting"
    /\ rt.pc = "raised"
    /\ eapi' = [eapi EXCEPT !.pc = "done", !.result = Raised("NetworkError"),
                            !.requests = rt.requests]
    /\ rt' = IdleRetry
    /\ UNCHANGED <<qb, plugins, hook, cacheVars, pres, searchVars, disk, syncVars,
                   asyncVars>>

InitEnhanced == disk \in InitDisks({}) /\ InitCommon

NextEnhanced ==
    \/ \E r \in EnhancedRequests : EnhancedSearchBegin(r)
    \/ RetryRequestOk
    \/ \E kind \in SearchFailures : RetryRequestFail(kind)
    \/ \E body \in EnhancedBodies : EnhancedSearchResponse(body)
    \/ EnhancedSearchNetworkError

SpecEnhanced == InitEnhanced /\ [][NextEnhanced]_vars

\* ------------------------------------------------------------------------
\* The plugins (src/plugins.py)
\* ------------------------------------------------------------------------
\* number of plugins registered and of hook calls of a behaviour
MaxPlugins == 3
MaxHooks == 2

MATH == <<"m", "a", "t", "h">>

\* Paper records as the plugins read them.  D1 and D2 have different ids and
\* the same title, abstract and authors.
D1 == [id |-> <<"x">>, title |-> <<"t">>, authors |-> <<<<"A">>, <<"B">>>>,
       abstract |-> <<"s">>, pdf_url |-> GoodUrl, published |-> <<>>,
       categories |-> <<CS_AI>>]
D2 == [D1 EXCEPT !.id = <<"y">>, !.categories = <<CS_AI, CS_LG>>]
D3 == [id |-> <<"z">>, title |-> <<"u">>, authors |-> <<<<"A">>>>,
       abstract |-> <<"s">>, pdf_url |-> GoodUrl, published |-> <<>>,
       categories |-> <<MATH>>]
PluginPapers == {D1, D2, D3}

\* content = f"{paper.title}_{paper.abstract}_{','.join(paper.authors)}"
PaperContent(paper) ==
    paper.title \o <<"_">> \o paper.abstract \o <<"_">> \o Join(paper.authors, <<",">>)

\* hashlib.md5 over the contents of the model's papers: an injective table
ContentMd5 ==
    LET contents == {PaperContent(p) : p \in PluginPapers}
    IN  CHOOSE f \in [contents -> 1..Cardinality(contents)] :
            \A x \in contents : \A y \in contents : x # y => f[x] # f[y]

\* DuplicateCheckPlugin._calculate_paper_hash
calculate_paper_hash(paper) == <<"m">> \o IntToStr(ContentMd5[PaperContent(paper)])

\* pdf_file.stem
Stem(name) == IF LastDot(name) = 0 THEN name ELSE SubSeq(name, 1, LastDot(name) - 1)

\* filename.split('_')[0]
BeforeUnderscore(s) ==
    LET us == {i \in DOMAIN s : s[i] = "_"}
    IN  IF us = {} THEN s
        ELSE SubSeq(s, 1, (CHOOSE i \in us : \A j \in us : i <= j) - 1)

\* DuplicateCheckPlugin._load_existing_papers over download_dir.glob("*.pdf")
load_existing_papers(dir) ==
    {BeforeUnderscore(Stem(f)) :
        f \in {g \in dir : /\ Len(g) >= Len(PDF_EXT)
                           /\ SubSeq(g, Len(g) - Len(PDF_EXT) + 1, Len(g)) = PDF_EXT
                           /\ \E i \in DOMAIN Stem(g) : Stem(g)[i] = "_"}}

\* DownloadPlugin.__init__ and the fields of its subclasses
NewPlugin(kind, name) ==
    [kind |-> kind, name |-> name, enabled |-> TRUE, downloaded_papers |-> {},
     paper_hashes |-> <<>>, allowed_categories |-> {}, blocked_categories |-> {},
     behaviour |-> "none"]

\* DuplicateCheckPlugin.__init__
DuplicateCheckPlugin(dir) ==
    [NewPlugin("duplicate", "duplicate_check")
        EXCEPT !.downloaded_papers = load_existing_papers(dir)]

\* set(allowed_categories or [])
SetOf(list) == {list[i] : i \in DOMAIN list}

\* CategoryFilterPlugin.__init__
CategoryFilterPlugin(allowed, blocked) ==
    [NewPlugin("category", "category_filter")
        EXCEPT !.allowed_categories = SetOf(allowed),
               !.blocked_categories = SetOf(blocked)]

\* a DownloadPlugin subclass whose pre_download raises
MockPlugin(behaviour) == [NewPlugin("mock", "mock") EXCEPT !.behaviour = behaviour]

\* the values of a dictionary
DictValues(d) == {d[k] : k \in DOMAIN d}

\* d[key] = value
DictSet(d, key, value) ==
    [k \in DOMAIN d \cup {key} |-> IF k = key THEN value ELSE d[k]]

\* a duplicate check by id alone
duplicate_id_only(pl, paper) ==
    IF paper.id \in pl.downloaded_papers THEN [ret |-> "False", plugin |-> pl]
    ELSE [ret |-> "True",
          plugin |-> [pl EXCEPT !.paper_hashes =
                         DictSet(@, paper.id, calculate_paper_hash(paper))]]

\* DuplicateCheckPlugin.pre_download: what it returns and the plugin after
duplicate_pre_download(pl, paper) ==
    IF paper.id \in pl.downloaded_papers THEN [ret |-> "False", plugin |-> pl]
    ELSE IF calculate_paper_hash(paper) \in DictValues(pl.paper_hashes)
    THEN [ret |-> "False", plugin |-> pl]
    ELSE [ret |-> "True",
          plugin |-> [pl EXCEPT !.paper_hashes =
                         DictSet(@, paper.id, calculate_paper_hash(paper))]]

\* a filter that tests the allowed set before the blocked set, admitting a
\* paper of an allowed category
category_allowed_first(pl, paper) ==
    LET paper_categories == SetOf(paper.categories)
    IN  IF pl.allowed_categories # {}
        THEN IF paper_categories \cap pl.allowed_categories # {}
             THEN [ret |-> "True", plugin |-> pl]
             ELSE [ret |-> "False", plugin |-> pl]
        ELSE IF paper_categories \cap pl.blocked_categories # {}
        THEN [ret |-> "False", plugin |-> pl]
        ELSE [ret |-> "True", plugin |-> pl]

\* CategoryFilterPlugin.pre_download
category_pre_download(pl, paper) ==
    LET paper_categories == SetOf(paper.categories)
    IN  IF /\ pl.blocked_categories # {}
           /\ paper_categories \cap pl.blocked_categories # {}
        THEN [ret |-> "False", plugin |-> pl]
        ELSE IF /\ pl.allowed_categories # {}
                /\ paper_categories \cap pl.allowed_categories = {}
        THEN [ret |-> "False", plugin |-> pl]
        ELSE [ret |-> "True", plugin |-> pl]

\* plugin.pre_download(paper)
pre_download(pl, paper) ==
    CASE pl.kind = "duplicate" -> duplicate_pre_download(pl, paper)
      [] pl.kind = "category" -> category_pre_download(pl, paper)
      [] pl.kind = "mock" -> [ret |-> pl.behaviour, plugin |-> pl]

\* DuplicateCheckPlugin.post_download; the other plugins keep no state here
post_download(pl, paper, success) ==
    IF pl.kind = "duplicate" /\ success
    THEN [pl EXCEPT !.downloaded_papers = @ \cup {paper.id}]
    ELSE pl

\* `if not plugin.pre_download(paper): return False`
StopsNever(ret) == FALSE
StopsAt(ret) == ret = "False"

\* `except Exception`: the loop goes on with the next plugin
RaiseEndsHookAlways == TRUE
RaiseEndsHook == FALSE

\* the loop of pre_download_hook from the plugin at index i on: the value
\* returned, the plugins afterwards, and the calls made with their outcome
RECURSIVE PreLoop(_, _, _, _)
PreLoop(ps, i, paper, trace) ==
    IF i > Len(ps) THEN [result |-> TRUE, plugins |-> ps, trace |-> trace]
    ELSE IF ~ps[i].enabled THEN PreLoop(ps, i + 1, paper, trace)
    ELSE LET o == pre_download(ps[i], paper)
             after == [ps EXCEPT ![i] = o.plugin]
             called == Append(trace, [index |-> i, ret |-> o.ret])
         IN  IF StopsAt(o.ret) \/ (o.ret = "raise" /\ RaiseEndsHook)
             THEN [result |-> FALSE, plugins |-> after, trace |-> called]
             ELSE PreLoop(after, i + 1, paper, called)

\* PluginManager.register_plugin
register_plugin(plugin) ==
    /\ Len(plugins) < MaxPlugins
    /\ plugins' = Append(plugins, plugin)
    /\ UNCHANGED <<hook, qb, eapi, cacheVars, pres, searchVars, disk, syncVars, rt,
                   asyncVars>>

\* plugin.enable() and plugin.disable() on a registered plugin
SetEnabled(i, enabled) ==
    /\ i \in DOMAIN plugins
    /\ plugins[i].enabled # enabled
    /\ plugins' = [plugins EXCEPT ![i].enabled = enabled]
    /\ UNCHANGED <<hook, qb, eapi, cacheVars, pres, searchVars, disk, syncVars, rt,
                   asyncVars>>

\* PluginManager.pre_download_hook
pre_download_hook(paper) ==
    /\ hook.n < MaxHooks
    /\ LET out == PreLoop(plugins, 1, paper, <<>>)
       IN  /\ plugins' = out.plugins
           /\ hook' = [op |-> "pre", n |-> hook.n + 1, paper |-> paper,
                       success |-> FALSE, result |-> Value(out.result),
                       trace |-> out.trace]
    /\ UNCHANGED <<qb, eapi, cacheVars, pres, searchVars, disk, syncVars, rt,
                   asyncVars>>

\* PluginManager.post_download_hook
post_download_hook(paper, success) ==
    /\ hook.n < MaxHooks
    /\ plugins' = [i \in DOMAIN plugins |->
                      IF plugins[i].enabled
                      THEN post_download(plugins[i], paper, success)
                      ELSE plugins[i]]
    /\ hook' = [op |-> "post", n |-> hook.n + 1, paper |-> paper,
                success |-> success, result |-> NoneValue,
                trace |-> <<>>]
    /\ UNCHANGED <<qb, eapi, cacheVars, pres, searchVars, disk, syncVars, rt,
                   asyncVars>>

\* the download directories a DuplicateCheckPlugin is created on
PluginDirs == {{<<"z", "_", "u">> \o PDF_EXT, <<"t">> \o PDF_EXT}}

\* the plugins a behaviour registers, one of a name at most
PluginChoices ==
    {DuplicateCheckPlugin(dir) : dir \in PluginDirs}
    \cup {CategoryFilterPlugin(<<>>, <<>>), CategoryFilterPlugin(<<CS_AI>>, <<CS_LG>>),
          CategoryFilterPlugin(<<>>, <<CS_LG>>)}
    \cup {MockPlugin("raise")}

InitPlugins == disk \in InitDisks({}) /\ InitCommon

NextPlugins ==
    \/ \E plugin \in PluginChoices :
          /\ \A i \in DOMAIN plugins : plugins[i].name # plugin.name
          /\ register_plugin(plugin)
    \/ \E i \in DOMAIN plugins, enabled \in BOOLEAN : SetEnabled(i, enabled)
    \/ \E paper \in PluginPapers : pre_download_hook(paper)
    \/ \E paper \in PluginPapers, success \in BOOLEAN :
          post_download_hook(paper, success)

SpecPlugins == InitPlugins /\ [][NextPlugins]_vars

\* ========================================================================
\* Properties
\* ========================================================================
LastCall == calls[Len(calls)]

\* the PDF files on disk that download_pdf wrote for a paper
FilesOf(paper) == {f \in DOMAIN disk : disk[f].owner = paper.id}

\* C1: download_pdf is idempotent: a second call for the same paper right
\* after a successful one is counted as skipped, issues no request and
\* leaves exactly one file of that paper on disk.
C1_Idempotent ==
    (dl.pc = "idle" /\ Len(calls) >= 2
        /\ calls[Len(calls) - 1].paper = LastCall.paper
        /\ calls[Len(calls) - 1].result = "success")
    => /\ LastCall.result = "skipped"
       /\ LastCall.requests = 0
       /\ Cardinality(FilesOf(LastCall.paper)) = 1

\* C2: a download_pdf call that does not complete its download, whatever the
\* exception, leaves no file at its target path and is recorded as failed.
C2_FailureCleanup ==
    (dl.pc = "idle" /\ calls # <<>> /\ LastCall.result \notin {"success", "skipped"})
    => /\ ~exists(LastCall.path)
       /\ LastCall.result = "failed"

\* C3: download_papers never raises: every paper of the list is accounted
\* for in the statistics (a file-system error as one failed download) and
\* the call returns.
C3_BatchSurvivesFileErrors ==
    (batch.status # "none" /\ calls = <<>>)
    => /\ batch.status = "returned"
       /\ stats.successful_downloads + stats.failed_downloads
            + stats.skipped_downloads = Len(batch.papers)

\* C4: Scenario D through download_papers: P1's title file exists already,
\* P2's fetch fails on every attempt, P3's fetch succeeds; the statistics
\* are successful=1, failed=1, skipped=1 and P2's target does not exist.
C4_ScenarioD ==
    (batch.status # "none" /\ calls = <<>>
        /\ batch.papers = <<P1, P2, P3>>
        /\ exists(TitleFile(P1))
        /\ Endpoint(P2) = "down" /\ Endpoint(P3) = "up")
    => /\ stats.successful_downloads = 1
       /\ stats.failed_downloads = 1
       /\ stats.skipped_downloads = 1
       /\ ~exists(WithSuffix(TitleFile(P2), P2.id))

\* results of the tasks whose coroutine raised
RaisedTasks == {i \in DOMAIN task : task[i].result = "TypeError"}

\* C5: download_papers_async does not raise for a failing paper: it returns,
\* failed is the number of tasks that raised, and a paper whose task did not
\* raise keeps its own outcome.
C5_FailuresCounted ==
    /\ amain # "raised"
    /\ amain = "returned" =>
          /\ aresult.failed = Cardinality(RaisedTasks)
          /\ aresult.successful + aresult.failed + aresult.skipped = Len(apapers)
          /\ \A i \in DOMAIN task :
                exists(AsyncTarget(apapers[i])) => task[i].result = "True"

C5_Witness ==
    /\ amain = "returned"
    /\ aresult.failed >= 1
    /\ \E i \in DOMAIN task : task[i].result = "True"

Holding == {i \in DOMAIN task : task[i].pc = "holding"}

Pending == {i \in DOMAIN task : task[i].pc = "pending"}

HoldingBound == amain = "gathering" => Cardinality(Holding) <= amax

StartsOnlyIntoFreeSlot ==
    \A i \in DOMAIN task :
        (amain = "gathering" /\ task[i].pc = "pending"
            /\ i \in DOMAIN task' /\ task'[i].pc = "holding")
        => Cardinality(Holding) < amax

\* C6: at every moment at most max_concurrent papers hold the semaphore, and
\* a waiting paper enters only when fewer than max_concurrent hold it.
C6_BoundedConcurrency == [](HoldingBound) /\ [][StartsOnlyIntoFreeSlot]_vars

C6_Witness ==
    /\ amain = "gathering"
    /\ amax >= 1
    /\ Cardinality(Holding) = amax
    /\ Pending # {}

Failures(outs) == Cardinality({i \in DOMAIN outs : outs[i] # "ok"})

\* C8: in the three synchronous retry loops with max_retries = n >= 1, a call
\* whose endpoint fails k < n times and then succeeds returns after exactly
\* k+1 requests and k sleeps; it is never given up before n failures.
C8_RetryThenSuccess ==
    (rt.loop \in SyncLoops /\ rt.max_retries >= 1)
    => /\ rt.pc = "returned" =>
            LET k == Len(rt.outs) - 1
            IN  /\ k < rt.max_retries
                /\ \A i \in 1..k : rt.outs[i] # "ok"
                /\ rt.outs[k + 1] = "ok"
                /\ rt.requests = k + 1
                /\ Len(rt.sleeps) = k
       /\ rt.pc = "try" => Failures(rt.outs) < rt.max_retries
       /\ rt.pc = "raised" => Failures(rt.outs) >= rt.max_retries

\* Scenario C: two failures, success on the third attempt, two sleeps
C8_Witness ==
    /\ rt.loop \in SyncLoops
    /\ rt.pc = "returned"
    /\ rt.max_retries = 3
    /\ rt.requests = 3
    /\ Len(rt.sleeps) = 2

C10_BackoffPower ==
    \A i \in DOMAIN rt.sleeps : rt.sleeps[i] = Pow(rt.base, i - 1)

\* an entry a save wrote and nothing damaged: a JSON object with its payload
\* and a cached_at timestamp
WellFormed(c) ==
    /\ c.kind = "json"
    /\ c.doc.j = "object"
    /\ c.doc.at.k = "str"
    /\ c.doc.at.wf
    /\ c.doc.data.k = "val"

\* an entry that is not valid JSON, not a JSON object, or whose cached_at is
\* missing, not a string or not a timestamp
Corrupted(c) ==
    \/ c.kind = "garbage"
    \/ /\ c.kind = "json"
       /\ \/ c.doc.j # "object"
          \/ c.doc.at.k # "str"
          \/ ~c.doc.at.wf

\* C11: in both cache namespaces, a get that follows a save of the same key
\* before the TTL has elapsed returns the payload that was saved, the latest
\* one when the key had been saved before.
C11_RoundTrip ==
    [][\A ns \in Namespaces : \A key \in CacheKeys(ns) :
          (/\ cres.op = "save" /\ cres.ns = ns /\ cres.key = key
           /\ now - cres.at <= Ttl(ns)
           /\ CacheGet(ns, key))
          => cres'.result = cres.arg]_vars

C13_CorruptedIsMiss ==
    [][\A ns \in Namespaces : \A key \in CacheKeys(ns) :
          LET f == CacheFile(ns, key)
              c == FileAt(f)
          IN  (CacheGet(ns, key) /\ Corrupted(c))
              => cres'.result = NoneValue /\ store'[f] = NoFile]_vars

\* the entries of a namespace that a step removed
RemovedBy(ns) ==
    {f \in CacheFiles : f[1] = ns /\ store[f].kind # "nofile" /\ store'[f].kind = "nofile"}

\* exactly the unreadable entries and the entries older than their
\* namespace's TTL are removed, every other entry is unchanged
ClearRemovesExactly ==
    \A f \in CacheFiles :
        store'[f] =
            IF \/ Corrupted(store[f])
               \/ /\ store[f].kind = "json"
                  /\ now - store[f].doc.at.hour > Ttl(f[1])
            THEN NoFile
            ELSE store[f]

RemovedCounts ==
    [papers |-> Cardinality(RemovedBy("papers")),
     searches |-> Cardinality(RemovedBy("searches"))]

\* C14 as stated: clear_expired_cache removes exactly the unreadable and the
\* expired entries of both namespaces and returns the per-namespace counts
\* of the entries it removed.
C14_ClearReturnsCounts ==
    [][clear_expired_cache
       => ClearRemovesExactly /\ cres'.result = Value(RemovedCounts)]_vars

\* C14 amended: clear_expired_cache removes exactly the unreadable and the
\* expired entries of both namespaces, leaves the others unchanged, writes
\* the per-namespace counts of the removed entries to the log and returns
\* None.
C14_ClearLogsCounts ==
    [][clear_expired_cache
       => /\ ClearRemovesExactly
          /\ cres'.logged = RemovedCounts
          /\ cres'.result = NoneValue]_vars

\* a clean-up removed a search entry and kept a paper entry
C14_Witness ==
    /\ cres.op = "clear"
    /\ now = cres.at
    /\ cres.logged.searches >= 1
    /\ cres.logged.papers = 0
    /\ WellFormed(FileAt(CacheFile("papers", ModernId)))

\* a date argument that is given and is not of the form YYYY-MM-DD
MalformedDate(v) == v.kind = "value" /\ v.value # <<>> /\ ~MatchesDate(v.value)

MalformedArgs(a) ==
    MalformedDate(a.date_from) \/ MalformedDate(a.date_to) \/ a.max_results <= 0

SearchFile(a) == CacheFile("searches", generate_query_hash(a))

\* a call that was answered from the cache: one lookup, no request, a list
CacheHit == sr.pc = "done" /\ sr.lookups = 1 /\ sr.requests = 0 /\ sr.result.kind = "value"

HitOnlyOwnEntry ==
    CacheHit => \E h \in hist : h.args = sr.args /\ sr.result = Value(h.papers)

RepeatIsServedFromCache ==
    \A a \in SearchArgs :
        (SearchBegin(a)
            /\ \E h \in hist : h.args = a /\ now - h.at <= SEARCH_TTL_HOURS)
        => /\ sr'.pc = "done"
           /\ sr'.requests = 0
           /\ rt' = rt
           /\ \E h \in hist : h.args = a /\ sr'.result = Value(h.papers)

\* C15: after a successful search_papers, a second call with the same four
\* arguments within one hour issues no request and returns the same papers
\* in the same order; a call is served from the cache only by an entry that
\* a call with the same four arguments wrote.
C15_RepeatFromCache == [](HitOnlyOwnEntry) /\ [][RepeatIsServedFromCache]_vars

\* a second call one hour after the first was answered from the cache with
\* the two papers of the first
C15_Witness ==
    /\ CacheHit
    /\ Len(sr.result.value) = 2
    /\ \E h \in hist : h.args = sr.args /\ sr.at = h.at + SEARCH_TTL_HOURS

\* C16: search_papers with a malformed date_from or date_to, or with
\* max_results <= 0, raises ValidationError at once: no request, no sleep and
\* no cache entry read, written or deleted.
C16_ValidationFirst ==
    [][\A a \in SearchArgs :
          (SearchBegin(a) /\ MalformedArgs(a))
          => /\ sr'.pc = "done"
             /\ sr'.result = Raised("ValidationError")
             /\ sr'.requests = 0 /\ sr'.sleeps = 0 /\ sr'.lookups = 0
             /\ rt' = rt
             /\ store' = store]_vars

\* C17: a response whose body is not well-formed XML ends search_papers with
\* ParseError, with no request after the one that was answered, and writes
\* no cache entry; a search that ends in NetworkError writes none either.
C17_FailedSearchNotCached ==
    [][/\ SearchResponse(MalformedBody)
          => /\ sr'.result = Raised("ParseError")
             /\ sr'.requests = rt.requests
             /\ sr'.requests = sr'.sleeps + 1
             /\ rt'.pc = "idle"
             /\ store' = store
             /\ store'[SearchFile(sr.args)] = NoFile
       /\ SearchNetworkError
          => /\ sr'.result = Raised("NetworkError")
             /\ store' = store
             /\ store'[SearchFile(sr.args)] = NoFile]_vars

\* a search ended in ParseError after its only request
C17_Witness ==
    /\ sr.pc = "done"
    /\ sr.result = Raised("ParseError")
    /\ sr.requests = 1
    /\ FileAt(SearchFile(sr.args)) = NoFile

\* the papers of a feed's entries, each entry parsed on its own
RECURSIVE EachAlone(_)
EachAlone(entries) ==
    IF entries = <<>> THEN <<>>
    ELSE LET r == parse_arxiv_response(Feed(<<Head(entries)>>))
         IN  (IF r.kind = "value" THEN r.value ELSE <<>>) \o EachAlone(Tail(entries))

\* C18: in _parse_arxiv_response a failure while extracting one entry's
\* fields or constructing its Paper skips that entry only: the parser does
\* not raise and returns the papers of all the other entries.
C18_EntryFailureSkipsEntry ==
    (pres.parser = "basic" /\ pres.body.wf)
    => pres.result = Value(EachAlone(pres.body.entries))

\* an entry with an id, a title and an application/pdf link with a valid href
Complete(e) ==
    /\ e.id.present /\ Truthy(e.id.text) /\ LastPart(e.id.text.value) # <<>>
    /\ e.title.present /\ Truthy(e.title.text) /\ clean_text(e.title.text.value) # <<>>
    /\ Truthy(PdfHref(e.links))
    /\ validate_url(PdfHref(e.links).value)
    /\ StartsWith(PdfHref(e.links).value, <<"h", "t", "t", "p">>)

\* C19: _parse_arxiv_response returns exactly the entries that have an id, a
\* title and an application/pdf link with a valid href, in document order,
\* and drops the others without raising.
C19_CompleteEntriesInOrder ==
    (pres.parser = "basic" /\ pres.body.wf)
    => LET complete == SelectSeq(pres.body.entries, Complete)
       IN  /\ pres.result.kind = "value"
           /\ Len(pres.result.value) = Len(complete)
           /\ \A k \in DOMAIN complete :
                 /\ pres.result.value[k].fields.id = LastPart(complete[k].id.text.value)
                 /\ pres.result.value[k].fields.title
                       = clean_text(complete[k].title.text.value)

\* C20: EnhancedArxivAPI._parse_response returns one Paper per well-formed
\* entry, in document order, each with the comment, journal_ref and doi of
\* its arXiv-namespace elements when they are present.
C20_EnhancedPapers ==
    (pres.parser = "enhanced" /\ pres.body.wf)
    => LET complete == SelectSeq(pres.body.entries, Complete)
       IN  /\ pres.result.kind = "value"
           /\ Len(pres.result.value) = Len(complete)
           /\ \A k \in DOMAIN complete :
                 /\ pres.result.value[k].fields.id = LastPart(complete[k].id.text.value)
                 /\ pres.result.value[k].fields.comment = extract_text(complete[k].comment)
                 /\ pres.result.value[k].fields.journal_ref
                       = extract_text(complete[k].journal_ref)
                 /\ pres.result.value[k].fields.doi = extract_text(complete[k].doi)

\* YYYYMMDD of a date written YYYY-MM-DD
DateDigits(d) == SubSeq(d, 1, 4) \o SubSeq(d, 6, 7) \o SubSeq(d, 9, 10)

StartBound(v) == IF Truthy(v) THEN DateDigits(v.value) \o <<"0", "0", "0", "0">> ELSE <<"*">>

EndBound(v) == IF Truthy(v) THEN DateDigits(v.value) \o <<"2", "3", "5", "9">> ELSE <<"*">>

EndsWith(s, suffix) ==
    Len(s) >= Len(suffix) /\ SubSeq(s, Len(s) - Len(suffix) + 1, Len(s)) = suffix

\* what follows the field name and the colon
Interval(clause, field) ==
    SubSeq(clause, Len(SearchFieldValue(field)) + 2, Len(clause))

\* C21: for every date range the inline builder of search_papers and
\* DateRange.to_query_string emit the same clause: field, colon and the
\* interval [start+TO+end] whose start is YYYYMMDD0000 or * and whose end is
\* YYYYMMDD2359 or *; a start-only range ends in TO+*], an end-only range
\* begins with [*+TO+, and no clause is emitted when neither bound is given.
C21_SameDateClause ==
    qb.builder # "none" =>
        LET r == qb.range
            given == Truthy(r.start_date) \/ Truthy(r.end_date)
        IN  /\ InlineDateFilter(r.start_date, r.end_date)
                 = to_query_string([r EXCEPT !.field = "SUBMITTED_DATE"])
            /\ given =>
                 /\ qb.clause = SearchFieldValue(r.field) \o <<":", "[">>
                        \o StartBound(r.start_date) \o <<"+", "T", "O", "+">>
                        \o EndBound(r.end_date) \o <<"]">>
                 /\ ~Truthy(r.end_date) => EndsWith(qb.clause, <<"T", "O", "+", "*", "]">>)
                 /\ ~Truthy(r.start_date) =>
                        StartsWith(Interval(qb.clause, r.field),
                                   <<"[", "*", "+", "T", "O", "+">>)
            /\ ~given => qb.clause = <<>>

\* the inline builder was given a start date and the empty string as end
C21_Witness ==
    /\ qb.builder = "inline"
    /\ Truthy(qb.range.start_date)
    /\ qb.range.end_date = Value(<<>>)
    /\ EndsWith(qb.clause, <<"0", "0", "0", "0", "+", "T", "O", "+", "*", "]">>)

\* a request the claim calls invalid; an id matches the pattern as re.match
\* matches it
InvalidRequest(r) ==
    \/ /\ r.query \in {NoneValue, Str(<<>>), QueryList(<<>>)}
       /\ r.id_list \in {NoneValue, Value(<<>>)}
       /\ r.categories \in {NoneValue, Value(<<>>)}
    \/ r.max_results <= 0
    \/ r.start < 0
    \/ /\ r.id_list.kind = "value"
       /\ \E i \in DOMAIN r.id_list.value : ~is_valid_arxiv_id(r.id_list.value[i])

Consulted(trace) == {trace[k].index : k \in DOMAIN trace}

\* the enabled plugins registered after the plugin at index i
EnabledAfter(i) == {j \in DOMAIN plugins : j > i /\ plugins[j].enabled}

\* C23: pre_download_hook returns True if and only if no enabled plugin's
\* pre_download returns False; a plugin whose pre_download raises is treated
\* as admitting and the enabled plugins registered after it are still
\* consulted; a disabled plugin is not consulted.
C23_AdmitsIffNoneRejects ==
    [][\A paper \in PluginPapers :
          pre_download_hook(paper)
          => LET tr == hook'.trace
             IN  /\ hook'.result =
                       Value(\A i \in DOMAIN plugins :
                                plugins[i].enabled
                                => pre_download(plugins[i], paper).ret # "False")
                 /\ \A k \in DOMAIN tr :
                       tr[k].ret = "raise"
                       => EnabledAfter(tr[k].index) \subseteq Consulted(tr)
                          \/ \E m \in DOMAIN tr : m > k /\ tr[m].ret = "False"
                 /\ \A k \in DOMAIN tr :
                       tr[k].ret = "raise" /\ EnabledAfter(tr[k].index) # {}
                       => k < Len(tr)
                 /\ \A i \in Consulted(tr) : plugins[i].enabled]_vars

\* a paper was admitted although a plugin raised: the plugin after it was
\* consulted and a disabled plugin was not
C23_Witness ==
    /\ hook.op = "pre"
    /\ hook.result = Value(TRUE)
    /\ \E k \in DOMAIN hook.trace :
          hook.trace[k].ret = "raise" /\ k < Len(hook.trace)
    /\ \E i \in DOMAIN plugins :
          ~plugins[i].enabled /\ i \notin Consulted(hook.trace)

\* C24: pre_download_hook consults the enabled plugins in registration order
\* and stops at the first rejection: no plugin registered after the
\* rejecting one is called, and the state of every later plugin is unchanged
\* by the rejected paper.
C24_StopsAtFirstRejection ==
    [][\A paper \in PluginPapers :
          pre_download_hook(paper)
          => LET tr == hook'.trace
             IN  /\ \A k \in DOMAIN tr :
                       k < Len(tr)
                       => tr[k].index < tr[k + 1].index /\ tr[k].ret # "False"
                 /\ \A k \in DOMAIN tr :
                       \A i \in DOMAIN plugins :
                          (i < tr[k].index /\ plugins[i].enabled) => i \in Consulted(tr)
                 /\ \A k \in DOMAIN tr :
                       tr[k].ret = "False"
                       => /\ hook'.result = Value(FALSE)
                          /\ \A j \in DOMAIN plugins :
                                j > tr[k].index
                                => j \notin Consulted(tr) /\ plugins'[j] = plugins[j]
                 /\ hook'.result = Value(TRUE)
                       => \A i \in DOMAIN plugins : plugins[i].enabled => i \in Consulted(tr)]_vars

\* a paper was rejected by a plugin registered before an enabled duplicate
\* check that has not seen the paper
C24_Witness ==
    /\ hook.op = "pre"
    /\ hook.result = Value(FALSE)
    /\ \E k \in DOMAIN hook.trace : \E j \in DOMAIN plugins :
          /\ hook.trace[k].ret = "False"
          /\ j > hook.trace[k].index
          /\ plugins[j].kind = "duplicate"
          /\ plugins[j].enabled
          /\ hook.paper.id \notin plugins[j].downloaded_papers
          /\ hook.paper.id \notin DOMAIN plugins[j].paper_hashes

SameContent(p, q) ==
    p.title = q.title /\ p.abstract = q.abstract /\ p.authors = q.authors

\* C25: DuplicateCheckPlugin.pre_download returns False for a paper whose
\* id a successful post_download recorded, and for a paper whose title,
\* abstract and authors equal those of a paper admitted before under a
\* different id; a successful post_download records the paper's id.
C25_DuplicatesRejected ==
    [][\A paper \in PluginPapers :
          /\ pre_download_hook(paper)
             => \A k \in DOMAIN hook'.trace :
                   LET pl == plugins[hook'.trace[k].index]
                   IN  (/\ pl.kind = "duplicate"
                        /\ \/ paper.id \in pl.downloaded_papers
                           \/ \E q \in PluginPapers :
                                 /\ q.id # paper.id
                                 /\ q.id \in DOMAIN pl.paper_hashes
                                 /\ SameContent(q, paper))
                       => hook'.trace[k].ret = "False"
          /\ post_download_hook(paper, TRUE)
             => \A i \in DOMAIN plugins :
                   (plugins[i].kind = "duplicate" /\ plugins[i].enabled)
                   => paper.id \in plugins'[i].downloaded_papers]_vars

\* Scenario E: D1 was admitted, then D2, of the same content and another id,
\* was rejected by the duplicate check
C25_Witness ==
    /\ hook.op = "pre"
    /\ hook.paper = D2
    /\ \E k \in DOMAIN hook.trace :
          LET pl == plugins[hook.trace[k].index]
          IN  /\ pl.kind = "duplicate"
              /\ hook.trace[k].ret = "False"
              /\ D1.id \in DOMAIN pl.paper_hashes
              /\ D2.id \notin pl.downloaded_papers

\* the tables of the duplicate checks are as they were
DuplicateTablesUnchanged ==
    \A i \in DOMAIN plugins :
        plugins[i].kind = "duplicate"
        => /\ plugins'[i].downloaded_papers = plugins[i].downloaded_papers
           /\ plugins'[i].paper_hashes = plugins[i].paper_hashes

\* C26: DuplicateCheckPlugin records a paper's id and content hash only
\* when its download succeeded: a pre_download and a post_download with
\* success=False leave the seen-id set and the hash table unchanged, and a
\* paper that was admitted and not downloaded is admitted again by the next
\* pre_download.
C26_RecordsOnlyOnSuccess ==
    [][\A paper \in PluginPapers :
          /\ pre_download_hook(paper) => DuplicateTablesUnchanged
          /\ post_download_hook(paper, FALSE) => DuplicateTablesUnchanged
          /\ (/\ hook.op = "pre"
              /\ hook.paper = paper
              /\ pre_download_hook(paper))
             => \A k \in DOMAIN hook.trace : \A m \in DOMAIN hook'.trace :
                   (/\ hook.trace[k].index = hook'.trace[m].index
                    /\ plugins[hook.trace[k].index].kind = "duplicate"
                    /\ hook.trace[k].ret = "True")
                   => hook'.trace[m].ret = "True"]_vars

\* C27: CategoryFilterPlugin.pre_download rejects a paper exactly when its
\* categories intersect the blocked set, or the allowed set is not empty and
\* its categories do not intersect it: a paper of an allowed and of a
\* blocked category is rejected, and with both sets empty every paper is
\* admitted.
C27_CategoryFilter ==
    [][\A paper \in PluginPapers :
          pre_download_hook(paper)
          => \A k \in DOMAIN hook'.trace :
                LET pl == plugins[hook'.trace[k].index]
                    cats == {paper.categories[i] : i \in DOMAIN paper.categories}
                    blocked == cats \cap pl.blocked_categories # {}
                    allowed == cats \cap pl.allowed_categories # {}
                IN  pl.kind = "category"
                    => /\ hook'.trace[k].ret \in {"True", "False"}
                       /\ hook'.trace[k].ret = "False"
                             <=> (blocked \/ (pl.allowed_categories # {} /\ ~allowed))
                       /\ (blocked /\ allowed) => hook'.trace[k].ret = "False"
                       /\ (pl.allowed_categories = {} /\ pl.blocked_categories = {})
                             => hook'.trace[k].ret = "True"]_vars

\* a paper of an allowed and of a blocked category was rejected
C27_Witness ==
    /\ hook.op = "pre"
    /\ \E k \in DOMAIN hook.trace :
          LET pl == plugins[hook.trace[k].index]
              cats == {hook.paper.categories[i] : i \in DOMAIN hook.paper.categories}
          IN  /\ pl.kind = "category"
              /\ cats \cap pl.allowed_categories # {}
              /\ cats \cap pl.blocked_categories # {}
              /\ hook.trace[k].ret = "False"


\* ------------------------------------------------------------------------
\* Statistics of a batch, sort parameters, unique file names
\* ------------------------------------------------------------------------
\* the statistics a batch of n papers starts from
FreshStats(n) == [NewStats EXCEPT !.total_papers = n]

\* C28: every download_papers call restarts the statistics of the
\* downloader from zero, so that they reflect that batch only: right after
\* the call starts, every counter is zero and total_papers is the length of
\* the list it was given.
C28_BatchStatsReset ==
    [][\A ps \in BatchInputs : DownloadPapers(ps) => stats' = FreshStats(Len(ps))]_vars

\* C29: a search_papers call that reaches the API and was given no sort
\* arguments sends sortBy=relevance, sortOrder=descending and start=0.
C29_DefaultSortRelevance ==
    [][\A a \in SearchArgs :
          (SearchBegin(a) /\ sr'.pc = "requesting")
          => /\ sr'.params.value.sortBy = "relevance"
             /\ sr'.params.value.sortOrder = "descending"
             /\ sr'.params.value.start = 0]_vars

\* the k-th name tried for a paper: <name>.pdf, <name>_<id>.pdf, <name>_1.pdf,
\* <name>_2.pdf, ...
Candidate(paper, k) ==
    LET name == sanitize_filename(paper.title)
    IN  IF k = 0 THEN name \o PDF_EXT
        ELSE name \o <<"_">> \o (IF k = 1 THEN paper.id ELSE IntToStr(k - 1))
             \o PDF_EXT

\* path is the first candidate of the paper that is not in the directory
FirstFree(dir, paper, path) ==
    \E k \in 0..(Cardinality(dir) + 1) :
        /\ Candidate(paper, k) = path
        /\ path \notin dir
        /\ \A j \in 0..(k - 1) : Candidate(paper, j) \in dir

\* the path download_pdf settled on in the step that just ran
ChosenPath == IF dl'.pc = "fetching" THEN dl'.filepath ELSE calls'[Len(calls')].path

\* C30: the path download_pdf gets from generate_unique_filename is the first
\* candidate, in the order <name>.pdf, <name>_<id>.pdf, <name>_1.pdf, ..., that
\* does not exist, and the file download_pdf opens for writing does not exist
\* when it is opened, also for papers of the same sanitised title.
C30_UniqueFilename ==
    [][/\ \A p \in PaperSet :
             DownloadPdfBegin(p) => FirstFree(DOMAIN disk, p, ChosenPath)
       /\ DownloadPdfSave => dl.filepath \notin DOMAIN disk]_vars

\* both earlier candidates of title "a" existed, a_1.pdf was written, and a
\* further paper of the same sanitised title is written to a_2.pdf
C30_Witness ==
    /\ PreFiles \subseteq DOMAIN disk
    /\ (<<"a", "_", "1">> \o PDF_EXT) \in DOMAIN disk
    /\ (<<"a", "_", "2">> \o PDF_EXT) \in DOMAIN disk
    /\ disk[<<"a", "_", "2">> \o PDF_EXT].owner = P1.id

\* ------------------------------------------------------------------------
\* Counters of download_pdf and of a batch
\* ------------------------------------------------------------------------
\* successful + failed + skipped
Terminal(st) == st.successful_downloads + st.failed_downloads + st.skipped_downloads

\* the step ended a download_pdf call that returned (True or False)
PdfReturned ==
    /\ Len(calls') = Len(calls) + 1
    /\ calls'[Len(calls')].result \in {"success", "failed", "skipped"}

\* the counter of the outcome went up by one, the other two are unchanged
CountedOnce(result) ==
    /\ Terminal(stats') = Terminal(stats) + 1
    /\ stats'.successful_downloads =
          stats.successful_downloads + (IF result = "success" THEN 1 ELSE 0)
    /\ stats'.failed_downloads =
          stats.failed_downloads + (IF result = "failed" THEN 1 ELSE 0)
    /\ stats'.skipped_downloads =
          stats.skipped_downloads + (IF result = "skipped" THEN 1 ELSE 0)

\* C31: every download_pdf call that returns has incremented exactly one of
\* the three outcome counters by one, and whenever download_papers returns,
\* successful + failed + skipped = total_papers = len(papers).
C31_CountersAddUp ==
    [][/\ PdfReturned => CountedOnce(calls'[Len(calls')].result)
       /\ \A ps \in BatchInputs :
             (DownloadPapers(ps) /\ batch'.status = "returned")
             => /\ Terminal(stats') = stats'.total_papers
                /\ stats'.total_papers = Len(ps)]_vars

\* ------------------------------------------------------------------------
\* Terminal states of the papers of download_papers_async
\* ------------------------------------------------------------------------
\* the state task i ended in: skipped when it returned at the existence test,
\* completed when it wrote its file, failed when it raised
EndState(i) ==
    IF IsException(task[i].result) THEN "failed"
    ELSE IF disk[AsyncTarget(apapers[i])].owner = "pre" THEN "skipped"
    ELSE "completed"

Ended(state) == Cardinality({i \in DOMAIN task : EndState(i) = state})

\* C32: a paper whose target file <id>_<title>.pdf exists is counted in
\* skipped, not in successful: the counts download_papers_async returns are
\* the numbers of papers that ended completed, failed and skipped.
C32_SkippedCounted ==
    [][(AsyncGather /\ amain' = "returned")
       => /\ aresult'.successful = Ended("completed")
          /\ aresult'.failed = Ended("failed")
          /\ aresult'.skipped = Ended("skipped")]_vars

\* C33: a task whose target file does not exist and whose fetch answers 200
\* ends completed: it returns True and its file is on disk with the fetched
\* content.
C33_FetchedCompletes ==
    [][\A i \in DOMAIN task :
          (/\ TaskBody(i)
           /\ ~exists(AsyncTarget(apapers[i]))
           /\ Endpoint(apapers[i]) = "up")
          => /\ task'[i].result = "True"
             /\ AsyncTarget(apapers[i]) \in DOMAIN disk'
             /\ disk'[AsyncTarget(apapers[i])] =
                   [owner |-> apapers[i].id, chunks |-> BodyChunks]]_vars

\* every submitted paper is in a terminal state
AllTerminal == \A i \in DOMAIN task : task[i].pc = "done"

\* C34 as stated: download_papers_async returns only after every paper
\* reached a terminal state, and every call returns, whatever max_concurrent.
C34_AlwaysReturns ==
    /\ [](amain = "returned" => AllTerminal)
    /\ (amain = "gathering") ~> (amain = "returned")

\* C34, amended: download_papers_async returns only after every paper
\* reached a terminal state, and with max_concurrent >= 1 every call returns:
\* no task waits forever for a slot.
C34_ReturnsWithSlots ==
    /\ [](amain = "returned" => AllTerminal)
    /\ (amain = "gathering" /\ amax >= 1) ~> (amain = "returned")

\* a batch with more papers than slots has returned
C34_Witness ==
    /\ amain = "returned"
    /\ amax >= 1
    /\ Len(task) > amax
    /\ AllTerminal

\* ------------------------------------------------------------------------
\* The duplicate filter over a directory written by download_pdf
\* ------------------------------------------------------------------------
\* the papers whose PDF download_pdf saved and which is still in the directory
SavedPapers ==
    {calls[i].paper : i \in {j \in DOMAIN calls : /\ calls[j].result = "success"
                                                  /\ exists(calls[j].path)}}

\* C35: the seen-id set of a DuplicateCheckPlugin constructed on the download
\* directory contains the id of every paper whose PDF download_pdf saved
\* there, so that the new plugin rejects the paper.
C35_SeededFromSavedFiles ==
    \A paper \in SavedPapers :
        paper.id \in DuplicateCheckPlugin(DOMAIN disk).downloaded_papers

\* ------------------------------------------------------------------------
\* Parameters and query strings of EnhancedArxivAPI
\* ------------------------------------------------------------------------
\* C36: every request that passes _validate_search_params gives, in
\* _build_query_params, a non-empty search_query or a non-empty id_list,
\* also when the query is a SearchQuery, or a list of them, without terms.
C36_ValidRequestHasQuery ==
    [][\A r \in EnhancedRequests :
          (EnhancedSearchBegin(r) /\ eapi'.pc = "requesting")
          => \/ Truthy(eapi'.params.value.search_query)
             \/ Truthy(eapi'.params.value.id_list)]_vars

\* the string the query is to give: the field code and a colon unless the
\* field is all, every term with a space in double quotes, several terms
\* joined by the operator inside parentheses
ExpectedString(q) ==
    LET quoted == [i \in DOMAIN q.terms |-> Quoted(q.terms[i])]
        prefix == IF q.field = "ALL" THEN <<>>
                  ELSE SearchFieldValue(q.field) \o <<":">>
    IN  IF Len(quoted) = 1 THEN prefix \o quoted[1]
        ELSE prefix \o <<"(">> \o Join(quoted, <<" ">> \o q.operator \o <<" ">>)
             \o <<")">>

\* the request consists of one SearchQuery with terms and nothing else
OnlySearchQuery(r) ==
    /\ r.query.kind = "SearchQuery"
    /\ r.query.terms # <<>>
    /\ ~Truthy(r.categories)
    /\ r.date_range = NoneValue

\* C37: SearchQuery.to_string puts <field_code>: in front for a field other
\* than all, wraps every term that contains a space in double quotes, for
\* one term as for several, and joins several terms by the operator inside
\* parentheses.
C37_TermsQuoted ==
    [][\A r \in EnhancedRequests :
          (EnhancedSearchBegin(r) /\ eapi'.pc = "requesting" /\ OnlySearchQuery(r))
          => eapi'.params.value.search_query = Value(ExpectedString(r.query))]_vars

\* ------------------------------------------------------------------------
\* Papers returned by search_papers
\* ------------------------------------------------------------------------
\* the invariant of models.Paper
ValidPaper(paper) ==
    /\ paper.cls = "Paper"
    /\ paper.fields.id # <<>>
    /\ paper.fields.title # <<>>
    /\ StartsWith(paper.fields.pdf_url, <<"h", "t", "t", "p">>)

\* C38: every Paper search_papers returns, parsed from a response or rebuilt
\* from a search-cache hit, has a non-empty id, a non-empty title and a
\* pdf_url that begins with http; a cached record that violates this is
\* never returned as a Paper.
C38_ReturnedPapersValid ==
    (sr.pc = "done" /\ sr.result.kind = "value")
    => \A i \in DOMAIN sr.result.value : ValidPaper(sr.result.value[i])

\* a search found a cache file whose second record has an empty id: it made
\* no request and ended with the ValidationError of Paper
C38_Witness ==
    /\ sr.pc = "done"
    /\ sr.args = StaleArgs
    /\ sr.lookups = 1
    /\ sr.requests = 0
    /\ sr.result = Raised("ValidationError")
    /\ cres.result = Value(<<CachedRecord, [CachedRecord EXCEPT !.id = <<>>]>>)

\* ------------------------------------------------------------------------
\* AsyncArxivDownloader.download_with_retry_async
\* ------------------------------------------------------------------------
\* the attempts of the call so far that returned True
Succeeded(outs) == {i \in DOMAIN outs : outs[i] = "True"}

AsyncRetryBounded ==
    rt.loop = "async"
    => /\ rt.requests <= rt.max_retries
       /\ rt.requests = Len(rt.outs)
       /\ rt.pc \in {"try", "true", "false"}
       /\ rt.pc = "try" => Succeeded(rt.outs) = {} /\ Len(rt.sleeps) = rt.requests
       /\ rt.pc = "true" => /\ Succeeded(rt.outs) = {rt.requests}
                            /\ Len(rt.sleeps) = rt.requests - 1
       /\ rt.pc = "false" => /\ Succeeded(rt.outs) = {}
                             /\ rt.requests = rt.max_retries
                             /\ Len(rt.sleeps) =
                                   IF rt.max_retries = 0 THEN 0 ELSE rt.max_retries - 1

\* C39: download_with_retry_async makes at most max_retries attempts, returns
\* True at the first attempt that succeeds and makes none after it, returns
\* False, and does not raise, once all attempts have failed, and sleeps
\* between two attempts only, never after the last one.
C39_AsyncRetryBounded ==
    /\ []AsyncRetryBounded
    /\ [][AsyncRetryAttempt => (rt.requests < rt.max_retries /\ Succeeded(rt.outs) = {})]_vars

\* three attempts failed: False, after two sleeps
C39_Witness ==
    /\ rt.loop = "async"
    /\ rt.pc = "false"
    /\ rt.max_retries = 3
    /\ rt.requests = 3
    /\ Len(rt.sleeps) = 2

====
